---------------------------- MODULE Spec2Model ----------------------------
(***************************************************************************)
(* The rotating artwork pool cache of lifestack's art service:             *)
(*   - the museum adapters and the content filter   (art/client.js),       *)
(*   - the pool builder fetchArtworkPool            (art/client.js),       *)
(*   - the rotation selector getArtworkByOrientation and the HTTP handlers *)
(*     around it (art/controller.js, dashboard/aggregator.js).             *)
(*                                                                         *)
(* Strings whose content the code inspects (titles, artists, styles,       *)
(* keywords) are sequences of one-character strings; other strings (ids,   *)
(* urls, cache keys) are sequences of tokens.  <<>> stands for a value     *)
(* that is undefined, null or the empty string (all falsy in JavaScript).  *)
(*                                                                         *)
(* Specifications:                                                         *)
(*   SpecAdapter   one call of one museum adapter, over every response     *)
(*   SpecPool      one run of fetchArtworkPool, iteration by iteration     *)
(*   SpecRotation  the two rotation selectors under overlapping calls      *)
(*   SpecHttp      GET /current, GET /orientation/:orientation and the     *)
(*                 dashboard's fetchArtworkData                            *)
(*   SpecWeights   fetchArtworkPool when an enabled source has weight 0    *)
(*   SpecSelection pickWeightedSource over every roll                      *)
(*   SpecOrientation  deriveOrientation over widths and heights            *)
(*   SpecCache     POST /cache/clear on the cache shared with other        *)
(*                 services                                                *)
(*   SpecRefresh   POST /refresh after the cache has been filled           *)
(*   SpecTtl       sequential selector calls over more than one pool TTL   *)
(*   SpecLifecycle sequential landscape calls over more than one pool TTL  *)
(*   SpecSignature portrait calls over style lists that join alike         *)
(*   SpecFallback  the selectors called with any orientation string        *)
(*   SpecPick      landscape calls around a POST /refresh                  *)
(*   SpecEquivalence  the two selectors side by side on the shared cache   *)
(*   Spec          the whole HTTP surface, with POST /refresh and          *)
(*                 POST /cache/clear                                       *)
(***************************************************************************)
EXTENDS Integers, Sequences, FiniteSets, TLC

VARIABLES
    \* ---- one adapter call (SpecAdapter) ----
    aPc,          \* "ready" | "returned"
    aSource,      \* source key of the adapter under call
    aOrientation, \* requested orientation
    aFilters,     \* filters argument
    aResponse,    \* what the museum's search API answers
    aOutcome,     \* what the adapter returned or threw
    \* ---- one run of fetchArtworkPool (SpecPool) ----
    pPc,          \* "start" | "loop" | "sleeping" | "returned" | "thrown"
    pConfig,      \* the sources configuration in force
    pPoolSize,    \* poolSize argument
    pOrientation, \* orientation argument
    pFilters,     \* filters argument
    attempt,      \* loop counter
    artworks,     \* the pool under construction
    seen,         \* set of dedupe keys
    pLast,        \* what the last attempt did
    pCalls,       \* number of adapter invocations so far
    pSleeps,      \* number of sleeps so far
    \* ---- the rotation selector and its HTTP surface (Spec) ----
    now,          \* Date.now(), in milliseconds
    cache,        \* the shared cache: key -> [value, expires]
    artConfig,    \* the sources table in force
    requests,     \* the requests in flight or last answered, per lane
    budget,       \* number of requests that may still start
    served,       \* per pool key: the last artwork getArtworkByOrientation returned
    \* ---- pickWeightedSource under a sweep of its rolls (SpecSelection) ----
    sEntries,     \* sourceEntries argument
    sRoll,        \* the next roll to draw, in half units
    sTally,       \* per key: how many unit intervals of rolls returned it
    sKey,         \* the key the last call returned
    \* ---- one call of deriveOrientation (SpecOrientation) ----
    oPc,          \* "call" | "returned"
    oWidth,       \* width argument
    oHeight,      \* height argument
    oResult       \* the value returned

adapterVars == <<aPc, aSource, aOrientation, aFilters, aResponse, aOutcome>>
poolVars == <<pPc, pConfig, pPoolSize, pOrientation, pFilters, attempt, artworks,
              seen, pLast, pCalls, pSleeps>>
rotationVars == <<now, cache, artConfig, requests, budget, served>>
selectionVars == <<sEntries, sRoll, sTally, sKey>>
orientationVars == <<oPc, oWidth, oHeight, oResult>>
unitVars == <<selectionVars, orientationVars>>
vars == <<adapterVars, poolVars, rotationVars, unitVars>>

-----------------------------------------------------------------------------
(* Texts *)

Untitled == <<"U", "n", "t", "i", "t", "l", "e", "d">>
UnknownArtist == <<"U", "n", "k", "n", "o", "w", "n", " ", "A", "r", "t", "i", "s", "t">>
UnknownDate == <<"U", "n", "k", "n", "o", "w", "n", " ", "D", "a", "t", "e">>
UnknownStyle == <<"U", "n", "k", "n", "o", "w", "n", " ", "S", "t", "y", "l", "e">>
TxtDog == <<"D", "o", "g">>
TxtMadonna == <<"M", "a", "d", "o", "n", "n", "a", " ", "a", "n", "d", " ", "C", "h", "i", "l", "d">>
TxtCubism == <<"C", "u", "b", "i", "s", "m">>
TxtSymbolism == <<"S", "y", "m", "b", "o", "l", "i", "s", "m">>
TxtIslamicArt == <<"I", "s", "l", "a", "m", "i", "c", " ", "A", "r", "t">>
TxtPaintings == <<"P", "a", "i", "n", "t", "i", "n", "g", "s">>
TxtMonet == <<"C", "l", "a", "u", "d", "e", " ", "M", "o", "n", "e", "t">>
TxtStLuke == <<"M", "a", "s", "t", "e", "r", " ", "o", "f", " ", "S", "A", "I", "N", "T", " ", "L", "u", "k", "e">>
TxtHarbor == <<"H", "a", "r", "b", "o", "r">>
TxtAbstract == <<"A", "b", "s", "t", "r", "a", "c", "t">>
TxtModern == <<"M", "o", "d", "e", "r", "n">>
TxtCommaSpace == <<",", " ">>

Uppers == <<"A","B","C","D","E","F","G","H","I","J","K","L","M",
            "N","O","P","Q","R","S","T","U","V","W","X","Y","Z">>
Lowers == <<"a","b","c","d","e","f","g","h","i","j","k","l","m",
            "n","o","p","q","r","s","t","u","v","w","x","y","z">>

\* String.prototype.toLowerCase, character by character
toLowerCase(text) ==
    [i \in 1..Len(text) |->
        IF \E k \in 1..Len(Uppers) : Uppers[k] = text[i]
        THEN Lowers[CHOOSE k \in 1..Len(Uppers) : Uppers[k] = text[i]]
        ELSE text[i]]

\* String.prototype.includes: keyword occurs as a contiguous substring
includes(text, keyword) ==
    \E i \in 0..(Len(text) - Len(keyword)) :
        SubSeq(text, i + 1, i + Len(keyword)) = keyword

\* Array.prototype.join
RECURSIVE join(_, _)
join(list, sep) ==
    IF Len(list) = 0 THEN <<>>
    ELSE IF Len(list) = 1 THEN list[1]
    ELSE list[1] \o sep \o join(Tail(list), sep)

\* x === null in place of !x: the museums send "" or nothing, never null
IsNullOnly(x) == FALSE

\* !x on a string: undefined, null and "" are falsy
IsFalsy(x) == x = <<>>

\* a || b on strings
OrElse(a, b) == IF a # <<>> THEN a ELSE b

-----------------------------------------------------------------------------
(* art/config.js *)

religiousKeywords ==
    << <<"c", "h", "r", "i", "s", "t">>,
       <<"j", "e", "s", "u", "s">>,
       <<"v", "i", "r", "g", "i", "n">>,
       <<"m", "a", "d", "o", "n", "n", "a">>,
       <<"s", "a", "i", "n", "t">>,
       <<"h", "o", "l", "y">>,
       <<"b", "i", "b", "l", "i", "c", "a", "l">>,
       <<"b", "i", "b", "l", "e">>,
       <<"a", "p", "o", "s", "t", "l", "e">>,
       <<"c", "r", "u", "c", "i", "f", "i", "x", "i", "o", "n">>,
       <<"r", "e", "s", "u", "r", "r", "e", "c", "t", "i", "o", "n">>,
       <<"n", "a", "t", "i", "v", "i", "t", "y">>,
       <<"a", "n", "n", "u", "n", "c", "i", "a", "t", "i", "o", "n">>,
       <<"p", "i", "e", "t", "a">>,
       <<"c", "r", "u", "c", "i", "f", "i", "e", "d">>,
       <<"c", "r", "u", "c", "i", "f", "i", "x">>,
       <<"a", "l", "t", "a", "r">>,
       <<"c", "a", "t", "h", "e", "d", "r", "a", "l">>,
       <<"c", "h", "u", "r", "c", "h">>,
       <<"m", "o", "n", "a", "s", "t", "e", "r", "y">>,
       <<"t", "e", "m", "p", "l", "e">>,
       <<"b", "u", "d", "d", "h", "a">>,
       <<"b", "u", "d", "d", "h", "i", "s", "t">>,
       <<"h", "i", "n", "d", "u">>,
       <<"s", "h", "i", "v", "a">>,
       <<"v", "i", "s", "h", "n", "u">>,
       <<"k", "r", "i", "s", "h", "n", "a">>,
       <<"r", "e", "l", "i", "g", "i", "o", "u", "s">>,
       <<"m", "o", "s", "q", "u", "e">>,
       <<"i", "s", "l", "a", "m", "i", "c">>,
       <<"m", "u", "h", "a", "m", "m", "a", "d">>,
       <<"p", "r", "o", "p", "h", "e", "t">>,
       <<"d", "i", "v", "i", "n", "e">>,
       <<"d", "e", "i", "t", "y">>,
       <<"g", "o", "d">>,
       <<"a", "n", "g", "e", "l">>,
       <<"a", "r", "c", "h", "a", "n", "g", "e", "l">>,
       <<"g", "o", "s", "p", "e", "l">>,
       <<"s", "c", "r", "i", "p", "t", "u", "r", "e">>,
       <<"s", "e", "r", "m", "o", "n">>,
       <<"p", "r", "a", "y", "e", "r">>,
       <<"b", "l", "e", "s", "s", "i", "n", "g">>,
       <<"b", "a", "p", "t", "i", "s", "m">>,
       <<"c", "o", "m", "m", "u", "n", "i", "o", "n">>,
       <<"e", "u", "c", "h", "a", "r", "i", "s", "t">>,
       <<"s", "a", "c", "r", "e", "d">>,
       <<"p", "a", "t", "r", "o", "n", " ", "s", "a", "i", "n", "t">> >>

poolTtlSeconds == 3600
retryDelayMs == 500

rotationIntervals ==
    [portrait |-> 300, landscape |-> 420, tv |-> 360]

\* sources, in insertion order.  artic.styles is cut to two of its nine
\* entries; per-source options that only shape the outgoing query (met
\* departments, cleveland type) do not appear.
sources ==
    << [key |-> "artic",     enabled |-> TRUE,  weight |-> 35],
       [key |-> "met",       enabled |-> TRUE,  weight |-> 35],
       [key |-> "cleveland", enabled |-> TRUE,  weight |-> 20],
       [key |-> "giphy",     enabled |-> FALSE, weight |-> 0] >>

articStyles == <<TxtCubism, TxtSymbolism>>

-----------------------------------------------------------------------------
(* art/client.js: content filter and orientation *)

\* the keyword test without toLowerCase
containsReligiousContentNoLower(text) ==
    IF text = <<>> THEN FALSE
    ELSE \E k \in 1..Len(religiousKeywords) : includes(text, religiousKeywords[k])

containsReligiousContent(text) ==
    IF text = <<>> THEN FALSE
    ELSE LET lowerText == toLowerCase(text)
         IN  \E k \in 1..Len(religiousKeywords) :
                 includes(lowerText, religiousKeywords[k])

isReligiousArtwork(artwork) ==
    \/ containsReligiousContent(artwork.title)
    \/ containsReligiousContent(artwork.artist)
    \/ containsReligiousContent(artwork.style)

\* A JavaScript value handed to Number(): a number, undefined, null, or a
\* non-finite number.
Num(n)    == [kind |-> "num", v |-> n]
Undefined == [kind |-> "undefined", v |-> 0]
JsNull    == [kind |-> "null", v |-> 0]
Infinite  == [kind |-> "infinity", v |-> 0]
NotANumber == [kind |-> "nan", v |-> 0]

\* Number(x): [fin, v]
Number(x) ==
    CASE x.kind = "num"  -> [fin |-> TRUE, v |-> x.v]
      [] x.kind = "null" -> [fin |-> TRUE, v |-> 0]
      [] OTHER           -> [fin |-> FALSE, v |-> 0]

\* a || b on such values
DimOr(a, b) == IF (a.kind = "num" /\ a.v # 0) \/ a.kind = "infinity" THEN a ELSE b

NoOrientation == "null"

\* deriveOrientation without the tests for zero
deriveOrientationNoZeroTest(width, height) ==
    LET w == Number(width)
        h == Number(height)
    IN  IF ~w.fin \/ ~h.fin THEN NoOrientation
        ELSE IF h.v > w.v THEN "portrait"
        ELSE IF w.v > h.v THEN "landscape"
        ELSE NoOrientation

deriveOrientation(width, height) ==
    LET w == Number(width)
        h == Number(height)
    IN  IF ~w.fin \/ ~h.fin \/ w.v = 0 \/ h.v = 0 THEN NoOrientation
        ELSE IF h.v > w.v THEN "portrait"
        ELSE IF w.v > h.v THEN "landscape"
        ELSE NoOrientation

\* randomItem(list): any element; undefined (<<>>) for an empty list
randomItem(list) ==
    IF Len(list) = 0 THEN {<<>>} ELSE {list[i] : i \in 1..Len(list)}

-----------------------------------------------------------------------------
(* art/client.js: the three museum adapters.  An adapter is a set-valued   *)
(* operator: the set of everything it may return or throw for the given    *)
(* search response, over the draws of Math.random and over the failures of *)
(* the requests it makes after the search.                                 *)

ART_IIIF_BASE == "https://www.artic.edu/iiif/2"

SrcArtic     == <<"Art Institute of Chicago">>
SrcMet       == <<"Metropolitan Museum of Art">>
SrcCleveland == <<"Cleveland Museum of Art">>

Ok(art)    == [tag |-> "ok", art |-> art]
Throw(msg) == [tag |-> "throw", msg |-> msg]

NoFilters      == [hasStyles |-> FALSE, styles |-> <<>>]
Styles(list)   == [hasStyles |-> TRUE, styles |-> list]

NoDims == [width |-> Undefined, height |-> Undefined]

normalizeArtic(artwork, style) ==
    [ imageUrl    |-> <<ART_IIIF_BASE, "/">>
                         \o (IF artwork.image_id = <<>> THEN <<"undefined">>
                             ELSE artwork.image_id)
                         \o <<"/full/843,/0/default.jpg">>,
      title       |-> OrElse(artwork.title, Untitled),
      artist      |-> OrElse(artwork.artist_display, UnknownArtist),
      date        |-> OrElse(artwork.date_display, UnknownDate),
      id          |-> artwork.id,
      style       |-> OrElse(style, UnknownStyle),
      orientation |-> IF artwork.hasThumbnail
                      THEN deriveOrientation(artwork.thumbnail.width,
                                             artwork.thumbnail.height)
                      ELSE NoOrientation,
      source      |-> SrcArtic ]

\* the orientation test that only asks for a thumbnail
ArticMatchesAnyThumbnail(item, orientation) == item.hasThumbnail

ArticMatches(item, orientation) ==
    /\ item.hasThumbnail
    /\ deriveOrientation(item.thumbnail.width, item.thumbnail.height) = orientation

ArticWithStyle(orientation, randomStyle, response) ==
    IF response.failed THEN {Throw("ARTIC: request failed")}
    ELSE
    LET candidates == {item \in response.data : ~IsFalsy(item.image_id)}
        filtered == IF orientation # NoOrientation
                    THEN {item \in candidates : ArticMatches(item, orientation)}
                    ELSE candidates
        nonReligious ==
            {item \in (IF filtered # {} THEN filtered ELSE candidates) :
                ~isReligiousArtwork(normalizeArtic(item, randomStyle))}
    IN  IF candidates = {}
        THEN {Throw("ARTIC: no artworks with images returned")}
        ELSE IF nonReligious = {}
        THEN {Throw("ARTIC: all artworks filtered out as religious content")}
        ELSE {Ok(normalizeArtic(pick, randomStyle)) : pick \in nonReligious}

fetchFromArtic(orientation, filters, response) ==
    LET styles == IF filters.hasStyles THEN filters.styles ELSE articStyles
    IN  UNION {ArticWithStyle(orientation, randomStyle, response) :
                   randomStyle \in randomItem(styles)}

normalizeMet(object) ==
    [ imageUrl    |-> OrElse(object.primaryImageSmall, object.primaryImage),
      title       |-> OrElse(object.title, Untitled),
      artist      |-> OrElse(object.artistDisplayName, UnknownArtist),
      date        |-> OrElse(OrElse(object.objectDate, object.objectBeginDate),
                             UnknownDate),
      id          |-> object.objectID,
      style       |-> OrElse(OrElse(object.classification, object.department),
                             UnknownStyle),
      orientation |-> deriveOrientation(object.measurements.width,
                                        object.measurements.height),
      source      |-> SrcMet ]

MetMaxObjectTries == 20

Min(a, b) == IF a < b THEN a ELSE b

\* what one fetched object does to the loop: returned, or skipped
MetAccepts(object, orientation) ==
    LET normalized == normalizeMet(object)
    IN  /\ ~IsFalsy(OrElse(object.primaryImage, object.primaryImageSmall))
        /\ ~(/\ orientation # NoOrientation
             /\ normalized.orientation # NoOrientation
             /\ normalized.orientation # orientation)
        /\ ~isReligiousArtwork(normalized)

\* iterations i .. attempts-1 of the object loop; the request for an object
\* may fail, which skips it
RECURSIVE MetLoop(_, _, _, _)
MetLoop(i, attempts, orientation, ids) ==
    IF i >= attempts
    THEN {Throw("Met: unable to find non-religious image matching orientation")}
    ELSE LET rest == MetLoop(i + 1, attempts, orientation, ids)
         IN  rest \cup
             UNION {IF MetAccepts(object, orientation)
                    THEN {Ok(normalizeMet(object))}
                    ELSE rest : object \in ids}

fetchFromMet(orientation, filters, response) ==
    IF response.failed THEN {Throw("Met: request failed")}
    ELSE
    LET ids == response.data
    IN  IF ids = {} THEN {Throw("Met: no objects returned for query")}
        ELSE MetLoop(0, Min(MetMaxObjectTries, Cardinality(ids)), orientation, ids)

ClevelandImage(item) ==
    OrElse(item.images.web.url,
           OrElse(item.images.print.url,
                  OrElse(item.images.digital.url, item.images.tiny.url)))

ClevelandWidth(item)  == DimOr(item.images.web.width, item.images.print.width)
ClevelandHeight(item) == DimOr(item.images.web.height, item.images.print.height)

CreatorLabel(c) == OrElse(c.description, OrElse(c.role, c.name))

IsNonEmpty(s) == s # <<>>

normalizeCleveland(item) ==
    [ imageUrl    |-> ClevelandImage(item),
      title       |-> OrElse(item.title, Untitled),
      artist      |-> OrElse(
                        OrElse(join(SelectSeq([i \in 1..Len(item.creators) |->
                                                  CreatorLabel(item.creators[i])],
                                              IsNonEmpty),
                                    TxtCommaSpace),
                               item.creator),
                        UnknownArtist),
      date        |-> OrElse(OrElse(item.creation_date, item.creation_date_earliest),
                             UnknownDate),
      id          |-> item.id,
      style       |-> OrElse(OrElse(item.department, item.type), UnknownStyle),
      orientation |-> deriveOrientation(ClevelandWidth(item), ClevelandHeight(item)),
      source      |-> SrcCleveland ]

ClevelandMatches(item, orientation) ==
    LET ori == deriveOrientation(ClevelandWidth(item), ClevelandHeight(item))
    IN  ori = NoOrientation \/ ori = orientation

fetchFromCleveland(orientation, filters, response) ==
    IF response.failed THEN {Throw("Cleveland: request failed")}
    ELSE
    LET candidates == {item \in response.data : item.hasImages}
        filtered == IF orientation # NoOrientation
                    THEN {item \in candidates : ClevelandMatches(item, orientation)}
                    ELSE candidates
        nonReligious ==
            {item \in (IF filtered # {} THEN filtered ELSE candidates) :
                ~isReligiousArtwork(normalizeCleveland(item))}
    IN  IF candidates = {}
        THEN {Throw("Cleveland: no artworks with images returned")}
        ELSE IF nonReligious = {}
        THEN {Throw("Cleveland: all artworks filtered out as religious content")}
        ELSE {IF IsFalsy(normalizeCleveland(pick).imageUrl)
              THEN Throw("Cleveland: selected artwork missing image url")
              ELSE Ok(normalizeCleveland(pick)) : pick \in nonReligious}

fetchFromSource(sourceKey, orientation, filters, response) ==
    CASE sourceKey = "artic"     -> fetchFromArtic(orientation, filters, response)
      [] sourceKey = "met"       -> fetchFromMet(orientation, filters, response)
      [] sourceKey = "cleveland" -> fetchFromCleveland(orientation, filters, response)
      [] OTHER                   -> {Throw("Unknown art source")}

-----------------------------------------------------------------------------
(* What the museums hold: a small catalogue per source.  A search response *)
(* is a request failure or any subset of the source's catalogue.           *)

ArticItem(id, image_id, title, artist, hasThumbnail, w, h) ==
    [ id |-> id, image_id |-> image_id, title |-> title,
      artist_display |-> artist, date_display |-> <<>>,
      hasThumbnail |-> hasThumbnail,
      thumbnail |-> [width |-> w, height |-> h] ]

ArticCatalogue ==
    { ArticItem(<<"a1">>, <<"img-a1">>, TxtDog, TxtMonet, TRUE, Num(100), Num(200)),
      ArticItem(<<"a2">>, <<"img-a2">>, TxtMadonna, <<>>, TRUE, Num(200), Num(100)),
      ArticItem(<<"a3">>, <<>>, TxtHarbor, TxtMonet, TRUE, Num(200), Num(100)) }

MetObject(id, image, small, title, artist, classification, w, h) ==
    [ objectID |-> id, primaryImage |-> image, primaryImageSmall |-> small,
      title |-> title, artistDisplayName |-> artist,
      objectDate |-> <<>>, objectBeginDate |-> <<>>,
      classification |-> classification, department |-> TxtPaintings,
      measurements |-> [width |-> w, height |-> h] ]

MetCatalogue ==
    { MetObject(<<"m1">>, <<>>, <<"https://met/m1-small.jpg">>, TxtHarbor, TxtMonet,
                TxtPaintings, Num(200), Num(100)),
      MetObject(<<"m2">>, <<"https://met/m2.jpg">>, <<>>, <<>>, <<>>, <<>>,
                Undefined, Undefined),
      MetObject(<<"m3">>, <<"https://met/m3.jpg">>, <<>>, TxtHarbor, TxtStLuke,
                TxtPaintings, Undefined, Undefined),
      MetObject(<<"m4">>, <<>>, <<>>, TxtDog, TxtMonet, TxtPaintings,
                Num(100), Num(200)) }

NoImage == [url |-> <<>>, width |-> Undefined, height |-> Undefined]

ClevelandItem(id, hasImages, web, title, creators, department) ==
    [ id |-> id, hasImages |-> hasImages,
      images |-> [web |-> web, print |-> NoImage, digital |-> NoImage,
                  tiny |-> NoImage],
      title |-> title, creators |-> creators, creator |-> <<>>,
      creation_date |-> <<>>, creation_date_earliest |-> <<>>,
      department |-> department, type |-> <<>> ]

ClevelandCatalogue ==
    { ClevelandItem(<<"k1">>, TRUE,
                    [url |-> <<"https://cma/k1.jpg">>, width |-> Num(100),
                     height |-> Num(200)],
                    TxtDog,
                    <<[description |-> TxtMonet, role |-> <<>>, name |-> <<>>]>>,
                    TxtPaintings),
      ClevelandItem(<<"k2">>, TRUE, NoImage, TxtHarbor, <<>>, TxtPaintings),
      ClevelandItem(<<"k3">>, TRUE,
                    [url |-> <<"https://cma/k3.jpg">>, width |-> Num(200),
                     height |-> Num(100)],
                    TxtHarbor, <<>>, TxtIslamicArt),
      ClevelandItem(<<"k4">>, FALSE, NoImage, TxtDog, <<>>, TxtPaintings) }

Catalogue(sourceKey) ==
    CASE sourceKey = "artic"     -> ArticCatalogue
      [] sourceKey = "met"       -> MetCatalogue
      [] sourceKey = "cleveland" -> ClevelandCatalogue
      [] OTHER                   -> {}

RequestFailed == [failed |-> TRUE, data |-> {}]
Answer(data)  == [failed |-> FALSE, data |-> data]

Responses(sourceKey) ==
    {RequestFailed} \cup {Answer(data) : data \in SUBSET Catalogue(sourceKey)}

SourceKeys   == {"artic", "met", "cleveland", "giphy"}
Orientations == {"portrait", "landscape", "tv", NoOrientation}
FilterInputs == {NoFilters, Styles(<<TxtCubism>>)}

-----------------------------------------------------------------------------
(* art/client.js: source selection *)

sourcesNoneEnabled ==
    [i \in 1..Len(sources) |-> [sources[i] EXCEPT !.enabled = FALSE]]

SourceConfigs == {sources, sourcesNoneEnabled}

\* config.sources with giphy switched on, its weight left at 0
sourcesGiphyEnabled ==
    [i \in 1..Len(sources) |->
        IF sources[i].key = "giphy" THEN [sources[i] EXCEPT !.enabled = TRUE]
        ELSE sources[i]]

\* config.sources with cleveland the only enabled source, at weight 0
sourcesZeroWeight ==
    [i \in 1..Len(sources) |->
        IF sources[i].key = "cleveland" THEN [sources[i] EXCEPT !.weight = 0]
        ELSE [sources[i] EXCEPT !.enabled = FALSE]]

ZeroWeightConfigs == {sourcesGiphyEnabled, sourcesZeroWeight}

IsEnabled(cfg) == cfg.enabled

\* weight: cfg.weight || 1
enabledSources(config) ==
    LET on == SelectSeq(config, IsEnabled)
    IN  [i \in 1..Len(on) |->
            [key |-> on[i].key,
             weight |-> IF on[i].weight = 0 THEN 1 ELSE on[i].weight]]

RECURSIVE SumWeights(_, _)
SumWeights(sourceEntries, i) ==
    IF i > Len(sourceEntries) THEN 0
    ELSE sourceEntries[i].weight + SumWeights(sourceEntries, i + 1)

totalWeight(sourceEntries) == SumWeights(sourceEntries, 1)

\* Math.random() * totalWeight lies in [0, totalWeight); a roll is held in
\* half units (roll2 = 2 * roll), so that the whole numbers, where
\* roll <= cursor holds with equality, and the points between them are drawn.
Rolls(sourceEntries) ==
    IF totalWeight(sourceEntries) = 0 THEN {0}
    ELSE 0..(2 * totalWeight(sourceEntries) - 1)

\* the walk that compares the roll with each weight, not with the cursor
RECURSIVE WalkSourcesNoCursor(_, _, _, _)
WalkSourcesNoCursor(sourceEntries, i, cursor, roll2) ==
    IF i > Len(sourceEntries)
    THEN IF Len(sourceEntries) = 0 THEN "undefined" ELSE sourceEntries[1].key
    ELSE IF roll2 <= 2 * sourceEntries[i].weight
         THEN sourceEntries[i].key
         ELSE WalkSourcesNoCursor(sourceEntries, i + 1, cursor, roll2)

\* the walk with roll < cursor: a roll on a boundary goes to the later source
RECURSIVE WalkSourcesStrict(_, _, _, _)
WalkSourcesStrict(sourceEntries, i, cursor, roll2) ==
    IF i > Len(sourceEntries)
    THEN IF Len(sourceEntries) = 0 THEN "undefined" ELSE sourceEntries[1].key
    ELSE IF roll2 < 2 * (cursor + sourceEntries[i].weight)
         THEN sourceEntries[i].key
         ELSE WalkSourcesStrict(sourceEntries, i + 1, cursor + sourceEntries[i].weight, roll2)

RECURSIVE WalkSources(_, _, _, _)
WalkSources(sourceEntries, i, cursor, roll2) ==
    IF i > Len(sourceEntries)
    THEN IF Len(sourceEntries) = 0 THEN "undefined" ELSE sourceEntries[1].key
    ELSE IF roll2 <= 2 * (cursor + sourceEntries[i].weight)
         THEN sourceEntries[i].key
         ELSE WalkSources(sourceEntries, i + 1, cursor + sourceEntries[i].weight, roll2)

pickWeightedSource(sourceEntries, roll2) == WalkSources(sourceEntries, 1, 0, roll2)

\* the keys pickWeightedSource returns over all rolls
Pickable ==
    [config \in SourceConfigs \cup ZeroWeightConfigs |->
        {pickWeightedSource(enabledSources(config), roll2) :
            roll2 \in Rolls(enabledSources(config))}]

\* what fetchFromSource may return or throw, over all search responses
AdapterOutcomes ==
    [sourceKey \in SourceKeys \cup {"undefined"}, orientation \in Orientations,
     filters \in FilterInputs |->
        UNION {fetchFromSource(sourceKey, orientation, filters, response) :
                   response \in Responses(sourceKey)}]

-----------------------------------------------------------------------------
(* art/client.js: fetchArtworkPool *)

MaxPoolSize == 3

\* one attempt too many
maxAttemptsOffByOne(poolSize) == poolSize * 4 + 1

maxAttempts(poolSize) == poolSize * 4

\* `${artwork.source}:${artwork.id}`; an undefined id prints as "undefined"
dedupeKey(artwork) ==
    artwork.source \o <<":">> \o (IF artwork.id = <<>> THEN <<"undefined">>
                                  ELSE artwork.id)

\* the loop body without seen.add(dedupeKey)
LoopBodyNoSeenAdd(arts, sn, poolSize, outcome) ==
    IF outcome.tag = "throw"
    THEN [artworks |-> arts, seen |-> sn, kind |-> "failed", sleep |-> TRUE]
    ELSE IF IsFalsy(outcome.art.imageUrl)
    THEN [artworks |-> arts, seen |-> sn, kind |-> "noimage", sleep |-> FALSE]
    ELSE IF dedupeKey(outcome.art) \in sn
    THEN [artworks |-> arts, seen |-> sn, kind |-> "duplicate", sleep |-> FALSE]
    ELSE [artworks |-> Append(arts, outcome.art),
          seen |-> sn,
          kind |-> "added",
          sleep |-> Len(arts) + 1 < poolSize]

\* The body of one loop iteration, given what fetchFromSource did:
\* the pool and the seen set after it, and whether the iteration sleeps.
LoopBody(arts, sn, poolSize, outcome) ==
    IF outcome.tag = "throw"
    THEN [artworks |-> arts, seen |-> sn, kind |-> "failed", sleep |-> TRUE]
    ELSE IF IsFalsy(outcome.art.imageUrl)
    THEN [artworks |-> arts, seen |-> sn, kind |-> "noimage", sleep |-> FALSE]
    ELSE IF dedupeKey(outcome.art) \in sn
    THEN [artworks |-> arts, seen |-> sn, kind |-> "duplicate", sleep |-> FALSE]
    ELSE [artworks |-> Append(arts, outcome.art),
          seen |-> sn \cup {dedupeKey(outcome.art)},
          kind |-> "added",
          sleep |-> Len(arts) + 1 < poolSize]

NoAttempt == [kind |-> "none", sourceKey |-> "none", outcome |-> Throw("none")]

\* fetchArtworkPool without the test of sources.length
PoolStartNoCheck ==
    /\ pPc = "start"
    /\ pPc' = "loop"
    /\ artworks' = <<>>
    /\ seen' = {}
    /\ attempt' = 0
    /\ UNCHANGED <<pConfig, pPoolSize, pOrientation, pFilters, pLast, pCalls, pSleeps>>
    /\ UNCHANGED <<adapterVars, rotationVars, unitVars>>

PoolStart ==
    /\ pPc = "start"
    /\ IF Len(enabledSources(pConfig)) = 0
       THEN pPc' = "thrown"
       ELSE pPc' = "loop"
    /\ artworks' = <<>>
    /\ seen' = {}
    /\ attempt' = 0
    /\ UNCHANGED <<pConfig, pPoolSize, pOrientation, pFilters, pLast, pCalls, pSleeps>>
    /\ UNCHANGED <<adapterVars, rotationVars, unitVars>>

PoolAttempt ==
    /\ pPc = "loop"
    /\ attempt < maxAttempts(pPoolSize)
    /\ Len(artworks) < pPoolSize
    /\ \E sourceKey \in Pickable[pConfig] :
       \E outcome \in AdapterOutcomes[sourceKey, pOrientation, pFilters] :
          LET step == LoopBody(artworks, seen, pPoolSize, outcome)
          IN  /\ artworks' = step.artworks
              /\ seen' = step.seen
              /\ pLast' = [kind |-> step.kind, sourceKey |-> sourceKey,
                           outcome |-> outcome]
              /\ pCalls' = pCalls + 1
              /\ IF step.sleep
                 THEN pPc' = "sleeping" /\ attempt' = attempt
                 ELSE pPc' = "loop" /\ attempt' = attempt + 1
    /\ UNCHANGED <<pConfig, pPoolSize, pOrientation, pFilters, pSleeps>>
    /\ UNCHANGED <<adapterVars, rotationVars, unitVars>>

\* await this.sleep(retryDelayMs) is over: the iteration ends
PoolWake ==
    /\ pPc = "sleeping"
    /\ pPc' = "loop"
    /\ pSleeps' = pSleeps + 1
    /\ attempt' = attempt + 1
    /\ UNCHANGED <<pConfig, pPoolSize, pOrientation, pFilters, artworks, seen,
                   pLast, pCalls>>
    /\ UNCHANGED <<adapterVars, rotationVars, unitVars>>

\* a pool smaller than poolSize reported as a failure
PoolFinishPartialThrows ==
    /\ pPc = "loop"
    /\ ~(attempt < maxAttempts(pPoolSize) /\ Len(artworks) < pPoolSize)
    /\ pPc' = IF Len(artworks) < pPoolSize THEN "thrown" ELSE "returned"
    /\ UNCHANGED <<pConfig, pPoolSize, pOrientation, pFilters, attempt, artworks,
                   seen, pLast, pCalls, pSleeps>>
    /\ UNCHANGED <<adapterVars, rotationVars, unitVars>>

PoolFinish ==
    /\ pPc = "loop"
    /\ ~(attempt < maxAttempts(pPoolSize) /\ Len(artworks) < pPoolSize)
    /\ pPc' = IF Len(artworks) = 0 THEN "thrown" ELSE "returned"
    /\ UNCHANGED <<pConfig, pPoolSize, pOrientation, pFilters, attempt, artworks,
                   seen, pLast, pCalls, pSleeps>>
    /\ UNCHANGED <<adapterVars, rotationVars, unitVars>>

RotationIdle ==
    /\ now = 0
    /\ cache = <<>>
    /\ artConfig = <<>>
    /\ requests = <<>>
    /\ budget = 0
    /\ served = <<>>

AdapterIdle ==
    /\ aPc = "idle"
    /\ aSource = "none"
    /\ aOrientation = NoOrientation
    /\ aFilters = NoFilters
    /\ aResponse = RequestFailed
    /\ aOutcome = Throw("none")

SelectionIdle ==
    /\ sEntries = <<>>
    /\ sRoll = 0
    /\ sTally = <<>>
    /\ sKey = "none"

OrientationIdle ==
    /\ oPc = "idle"
    /\ oWidth = Undefined
    /\ oHeight = Undefined
    /\ oResult = NoOrientation

UnitIdle == SelectionIdle /\ OrientationIdle

PoolIdle ==
    /\ pPc = "idle"
    /\ pConfig = sources
    /\ pPoolSize = 0
    /\ pOrientation = NoOrientation
    /\ pFilters = NoFilters
    /\ attempt = 0
    /\ artworks = <<>>
    /\ seen = {}
    /\ pLast = NoAttempt
    /\ pCalls = 0
    /\ pSleeps = 0

InitPool ==
    /\ pPc = "start"
    /\ pConfig \in SourceConfigs
    /\ pPoolSize \in 0..MaxPoolSize
    /\ pOrientation \in Orientations
    /\ pFilters \in FilterInputs
    /\ attempt = 0
    /\ artworks = <<>>
    /\ seen = {}
    /\ pLast = NoAttempt
    /\ pCalls = 0
    /\ pSleeps = 0
    /\ AdapterIdle
    /\ RotationIdle
    /\ UnitIdle

NextPool == PoolStart \/ PoolAttempt \/ PoolWake \/ PoolFinish

SpecPool == InitPool /\ [][NextPool]_vars

\* fetchArtworkPool under configurations that enable a source of weight 0
InitWeights ==
    /\ pPc = "start"
    /\ pConfig \in ZeroWeightConfigs \cup {sourcesNoneEnabled}
    /\ pPoolSize \in 1..MaxPoolSize
    /\ pOrientation \in {"portrait", NoOrientation}
    /\ pFilters = NoFilters
    /\ attempt = 0
    /\ artworks = <<>>
    /\ seen = {}
    /\ pLast = NoAttempt
    /\ pCalls = 0
    /\ pSleeps = 0
    /\ AdapterIdle
    /\ RotationIdle
    /\ UnitIdle

SpecWeights == InitWeights /\ [][NextPool]_vars

-----------------------------------------------------------------------------
(* One call of one adapter *)

AdapterFilterInputs == FilterInputs \cup {Styles(<<>>), Styles(<<TxtIslamicArt>>)}

InitAdapter ==
    /\ aPc = "ready"
    /\ aSource \in SourceKeys
    /\ aOrientation \in Orientations
    /\ aFilters \in AdapterFilterInputs
    /\ aResponse \in Responses(aSource)
    /\ aOutcome = Throw("none")
    /\ PoolIdle
    /\ RotationIdle
    /\ UnitIdle

AdapterCall ==
    /\ aPc = "ready"
    /\ aOutcome' \in fetchFromSource(aSource, aOrientation, aFilters, aResponse)
    /\ aPc' = "returned"
    /\ UNCHANGED <<aSource, aOrientation, aFilters, aResponse>>
    /\ UNCHANGED <<poolVars, rotationVars, unitVars>>

NextAdapter == AdapterCall

SpecAdapter == InitAdapter /\ [][NextAdapter]_vars

-----------------------------------------------------------------------------
(* Properties of fetchArtworkPool (SpecPool) *)

SomeSourceEnabled == \E i \in 1..Len(pConfig) : pConfig[i].enabled

LoopOver == ~(attempt < pPoolSize * 4 /\ Len(artworks) < pPoolSize)

\* attempts used up, counting the one whose sleep is still running
AttemptsConsumed == attempt + (IF pPc = "sleeping" THEN 1 ELSE 0)

\* what is left to do: strictly smaller after every step of a run
PoolRank ==
    CASE pPc = "start"    -> 2 * (pPoolSize * 4) + 3
      [] pPc = "loop"     -> 2 * (pPoolSize * 4 - attempt) + 2
      [] pPc = "sleeping" -> 2 * (pPoolSize * 4 - attempt) + 1
      [] OTHER            -> 0

\* C3: pool size bound and termination.  In every run of fetchArtworkPool
\* the adapters are invoked at most poolSize*4 times, every invocation
\* (failed, rejected or added) uses up exactly one attempt, the pool never
\* holds more than poolSize artworks, every step brings the run strictly
\* closer to its end (so it ends), and a run in which nothing was added
\* ends by throwing, never by returning.
C3_PoolBoundAndTermination ==
    [][ /\ pCalls' <= pPoolSize' * 4
        /\ pCalls' = AttemptsConsumed'
        /\ Len(artworks') <= pPoolSize'
        /\ PoolRank' >= 0
        /\ PoolRank' < PoolRank
        /\ (pPc' = "returned" => Len(artworks') > 0)
        /\ (pPc' \in {"returned", "thrown"} /\ Len(artworks') = 0 => pPc' = "thrown")
      ]_vars

\* C3 witness: every one of the 12 attempts of a poolSize-3 run failed and
\* the run ended with the pool-exhaustion error
C3_Witness ==
    /\ pPc = "thrown"
    /\ pPoolSize = 3
    /\ pCalls = 12
    /\ pSleeps = 12
    /\ pLast.kind = "failed"

\* C4: with at least one enabled source the run throws exactly when the
\* pool is empty at the end of the attempt loop: a throw happens only after
\* the loop is over with zero artworks, a run that ends with a non-empty
\* pool, however small, returns it, and after an adapter error the run goes
\* on with the loop as long as attempts are left.
C4_ErrorIffEmptyPool ==
    SomeSourceEnabled =>
        /\ pPc = "thrown" => (Len(artworks) = 0 /\ LoopOver)
        /\ pPc = "returned" => (Len(artworks) > 0 /\ LoopOver)
        /\ pLast.outcome.tag = "throw" /\ pLast.kind # "none" /\ ~LoopOver =>
               pPc \in {"loop", "sleeping"}

\* C4 witness: a pool smaller than poolSize returned after a failed attempt
C4_Witness ==
    /\ pPc = "returned"
    /\ pPoolSize = 3
    /\ Len(artworks) = 1
    /\ pLast.kind = "failed"

SameSourceAndId(a, b) == a.source = b.source /\ a.id = b.id

NoDuplicates(pool) ==
    \A i, j \in 1..Len(pool) : SameSourceAndId(pool[i], pool[j]) => i = j

\* C5: dedupe invariant.  The pool never holds two entries with the same
\* (source, id), and an attempt whose adapter result has the (source, id) of
\* a pool member leaves the pool as it was.
C5_Dedupe ==
    /\ [] NoDuplicates(artworks)
    /\ [][ (/\ pCalls' = pCalls + 1
            /\ pLast'.outcome.tag = "ok"
            /\ \E i \in 1..Len(artworks) :
                   SameSourceAndId(artworks[i], pLast'.outcome.art))
           => (artworks' = artworks /\ pLast'.kind = "duplicate") ]_vars

\* C5 witness: a full pool was returned after a duplicate was rejected
C5_Witness ==
    /\ pPc = "returned"
    /\ Len(artworks) = 3
    /\ pLast.kind = "added"
    /\ pCalls > 3
    /\ pSleeps = 2

\* a denylist keyword occurs in the text, whatever the case of its letters
HasDenylistKeyword(text) ==
    \E k \in 1..Len(religiousKeywords) :
        \E i \in 1..Len(text) :
            /\ i + Len(religiousKeywords[k]) - 1 <= Len(text)
            /\ \A n \in 1..Len(religiousKeywords[k]) :
                   toLowerCase(<<text[i + n - 1]>>) = <<religiousKeywords[k][n]>>

\* every text a title, artist or style of this model can be
KnownTexts ==
    {Untitled, UnknownArtist, UnknownStyle, TxtDog, TxtMadonna, TxtCubism,
     TxtSymbolism, TxtIslamicArt, TxtPaintings, TxtMonet, TxtStLuke, TxtHarbor}

DenylistedTexts == {text \in KnownTexts : HasDenylistKeyword(text)}

Denylisted(artwork) ==
    \E text \in {artwork.title, artwork.artist, artwork.style} :
        text \notin KnownTexts \/ text \in DenylistedTexts

\* C6: religious filter.  No artwork whose title, artist or style holds a
\* denylist keyword in any letter case is returned by an adapter to the
\* pool builder, and none is in the pool.
C6_ReligiousFilter ==
    /\ pLast.outcome.tag = "ok" => ~Denylisted(pLast.outcome.art)
    /\ \A i \in 1..Len(artworks) : ~Denylisted(artworks[i])

\* C6 witness: an adapter found only religious candidates and threw, in a
\* run that goes on to return a pool
C6_Witness ==
    /\ pLast.outcome = Throw("ARTIC: all artworks filtered out as religious content")
    /\ Len(artworks) = 2

\* C7: every artwork of a pool that fetchArtworkPool holds or returns has a
\* non-empty imageUrl.
C7_ImageUrlPresent ==
    \A i \in 1..Len(artworks) : artworks[i].imageUrl # <<>>

\* C7 witness: a returned pool with a Met artwork, whose imageUrl comes from
\* primaryImage because primaryImageSmall is empty
C7_Witness ==
    /\ pPc = "returned"
    /\ \E i \in 1..Len(artworks) :
           /\ artworks[i].source = SrcMet
           /\ artworks[i].imageUrl = <<"https://met/m2.jpg">>

-----------------------------------------------------------------------------
(* Properties of the adapters (SpecAdapter) *)

\* the orientation of a pair of reported dimensions, read off directly
ShapeOf(dims) ==
    IF dims.width.kind = "num" /\ dims.height.kind = "num"
       /\ dims.width.v > 0 /\ dims.height.v > 0 /\ dims.width.v # dims.height.v
    THEN IF dims.height.v > dims.width.v THEN "portrait" ELSE "landscape"
    ELSE NoOrientation

AdapterReturned ==
    /\ aPc = "returned"
    /\ aOrientation \in {"portrait", "landscape"}
    /\ aOutcome.tag = "ok"

\* C8 as claimed: an adapter asked for portrait or landscape returns only
\* artworks whose derived orientation is the requested one.
C8_OrientationAlwaysMatches ==
    AdapterReturned => aOutcome.art.orientation = aOrientation

\* C8 as amended: the requested orientation is preferred, not guaranteed.
\* Met never returns the opposite orientation (unknown passes); ARTIC returns
\* the requested orientation whenever the response holds a candidate with an
\* image and that orientation; Cleveland returns the requested or an unknown
\* orientation whenever the response holds such a candidate with images.
C8_OrientationPreferred ==
    AdapterReturned =>
        /\ aSource = "met" =>
               aOutcome.art.orientation \in {aOrientation, NoOrientation}
        /\ (/\ aSource = "artic"
            /\ \E item \in aResponse.data :
                   /\ item.image_id # <<>>
                   /\ item.hasThumbnail
                   /\ ShapeOf(item.thumbnail) = aOrientation)
           => aOutcome.art.orientation = aOrientation
        /\ (/\ aSource = "cleveland"
            /\ \E item \in aResponse.data :
                   /\ item.hasImages
                   /\ ShapeOf(item.images.web) \in {aOrientation, NoOrientation})
           => aOutcome.art.orientation \in {aOrientation, NoOrientation}

\* C8 witness: ARTIC, asked for portrait, answered with a landscape and a
\* portrait candidate, returned the portrait one
C8_Witness ==
    /\ AdapterReturned
    /\ aSource = "artic"
    /\ aOrientation = "portrait"
    /\ \E item \in aResponse.data :
           item.image_id # <<>> /\ ShapeOf(item.thumbnail) = "landscape"
    /\ aOutcome.art.orientation = "portrait"

-----------------------------------------------------------------------------
(* fetchArtworkPool as a whole: every pool it may return.  PoolStates(n)   *)
(* holds the (artworks, seen) pairs the loop can be in after n iterations  *)
(* of a run with at least one enabled source.                              *)

RECURSIVE PoolStates(_, _, _, _, _)
PoolStates(n, config, poolSize, orientation, filters) ==
    IF n = 0 THEN {[artworks |-> <<>>, seen |-> {}]}
    ELSE LET before == PoolStates(n - 1, config, poolSize, orientation, filters)
         IN  UNION {
               IF Len(st.artworks) < poolSize
               THEN {LET step == LoopBody(st.artworks, st.seen, poolSize, outcome)
                     IN  [artworks |-> step.artworks, seen |-> step.seen] :
                        outcome \in UNION {AdapterOutcomes[sourceKey, orientation, filters] :
                                              sourceKey \in Pickable[config]}}
               ELSE {st} : st \in before}

\* artConfig.poolSize: 12 in config.js, scaled down to the model's bound
poolSize == MaxPoolSize

SourceRank(artwork) ==
    CASE artwork.source = SrcArtic -> 1
      [] artwork.source = SrcMet   -> 2
      [] OTHER                     -> 3

\* The pools the rotation model draws its builds from: of all the pools
\* fetchArtworkPool may return, those of a build during which either every
\* museum answered or only Cleveland did, listed in source order, the ARTIC
\* entries carrying the first candidate style.
InSample(pool, filters) ==
    /\ \A i, j \in 1..Len(pool) : i < j => SourceRank(pool[i]) < SourceRank(pool[j])
    /\ {pool[i].source : i \in 1..Len(pool)} \in {{}, {SrcCleveland}, {SrcArtic, SrcMet, SrcCleveland}}
    /\ \A i \in 1..Len(pool) :
           pool[i].source = SrcArtic =>
               pool[i].style = (IF filters.hasStyles THEN filters.styles[1]
                                ELSE articStyles[1])

\* <<>> stands for the run that ends with the pool-exhaustion error
BuildResults ==
    [orientation \in Orientations \ {NoOrientation}, filters \in FilterInputs |->
        {st.artworks :
            st \in PoolStates(maxAttempts(poolSize), sources, poolSize,
                              orientation, filters)}]

SampleBuilds ==
    [orientation \in Orientations \ {NoOrientation}, filters \in FilterInputs |->
        {pool \in BuildResults[orientation, filters] : InSample(pool, filters)}]

\* The builds under the three-orientation requests: of the sample, the run
\* that failed and the runs during which every museum answered and the Met
\* adapter took the first object of the search.
Ids(pool) == {pool[i].id : i \in 1..Len(pool)}

FanOutBuilds ==
    [orientation \in Orientations \ {NoOrientation}, filters \in FilterInputs |->
        {pool \in SampleBuilds[orientation, filters] :
            /\ Len(pool) # 1
            /\ <<"m2">> \in Ids(pool) =>
                   \A other \in SampleBuilds[orientation, filters] :
                       <<"m1">> \notin Ids(other)}]

-----------------------------------------------------------------------------
(* The shared cache (shared/middleware/cache).  An entry is a value with   *)
(* the instant it expires; a key is the sequence of the pieces its string  *)
(* is concatenated from.                                                   *)

PoolValue(pool) == [kind |-> "pool", pool |-> pool]
ArtValue(artwork) == [kind |-> "artwork", artwork |-> artwork]

CacheHas(c, key, t) == key \in DOMAIN c /\ t < c[key].expires
CacheGet(c, key) == c[key].value
CacheSet(c, key, value, ttlSeconds, t) ==
    [k \in DOMAIN c \cup {key} |->
        IF k = key THEN [value |-> value, expires |-> t + ttlSeconds * 1000]
        ELSE c[k]]
CacheDel(c, keys) == [k \in DOMAIN c \ keys |-> c[k]]
CacheKeys(c) == DOMAIN c
CacheLive(c, t) == [k \in {key \in DOMAIN c : t < c[key].expires} |-> c[k]]

-----------------------------------------------------------------------------
(* The art controller: cache durations, cache keys, rotation slots.        *)

\* the pool outlives poolTtlSeconds
CACHE_DURATIONS_LongPool ==
    [POOL |-> 2 * poolTtlSeconds, ROTATION |-> rotationIntervals]

CACHE_DURATIONS == [POOL |-> poolTtlSeconds, ROTATION |-> rotationIntervals]
CACHE_KEYS == [POOL |-> <<"art", ":", "pool">>, ROTATION |-> <<"art", ":", "rotation">>]

\* the fallback to the portrait interval
rotationIntervalPortraitDefault(orientation) ==
    IF orientation \in DOMAIN CACHE_DURATIONS.ROTATION
    THEN CACHE_DURATIONS.ROTATION[orientation]
    ELSE CACHE_DURATIONS.ROTATION.portrait

rotationInterval(orientation) ==
    IF orientation \in DOMAIN CACHE_DURATIONS.ROTATION
    THEN CACHE_DURATIONS.ROTATION[orientation]
    ELSE CACHE_DURATIONS.ROTATION.landscape

\* slots a tenth of the interval wide
rotationSlotTenth(t, interval) == t \div (interval * 100)

\* Math.floor(now / (rotationInterval * 1000))
rotationSlot(t, interval) == t \div (interval * 1000)

filterKey(filters) ==
    IF filters.hasStyles THEN <<":">> \o join(filters.styles, <<"-">>) ELSE <<>>

\* one key for every slot
rotationCacheKeyNoSlot(orientation, filters, slot) ==
    CACHE_KEYS.ROTATION \o <<":", orientation>> \o filterKey(filters)

rotationCacheKey(orientation, filters, slot) ==
    CACHE_KEYS.ROTATION \o <<":", orientation>> \o filterKey(filters)
        \o <<":", ToString(slot)>>

poolKey(orientation, filters) ==
    CACHE_KEYS.POOL \o <<":", orientation>> \o filterKey(filters)

\* the member after the slot's
PickIndexShifted(slot, length) == ((slot + 1) % length) + 1

\* artworkPool[rotationSlot % artworkPool.length], for 1-based sequences
PickIndex(slot, length) == (slot % length) + 1

NullArtwork == [isNull |-> TRUE]

\* the start that, on a rotation hit, sets the rotation key again
getArtworkStartRewrites(c, t, config, orientation, filters) ==
    LET interval == rotationInterval(orientation)
        slot == rotationSlot(t, interval)
        rotKey == rotationCacheKey(orientation, filters, slot)
        pKey == poolKey(orientation, filters)
        call == [orientation |-> orientation, startedAt |-> t, slot |-> slot,
                 interval |-> interval]
    IN  IF CacheHas(c, rotKey, t)
        THEN [st |-> "ok", via |-> "rotation", call |-> call,
              cache |-> CacheSet(c, rotKey, CacheGet(c, rotKey), interval, t),
              pool |-> <<>>, artwork |-> CacheGet(c, rotKey).artwork]
        ELSE IF CacheHas(c, pKey, t) /\ Len(CacheGet(c, pKey).pool) > 0
        THEN LET pool == CacheGet(c, pKey).pool
                 artwork == pool[PickIndex(slot, Len(pool))]
             IN  [st |-> "ok", via |-> "pool", call |-> call, pool |-> pool,
                  cache |-> CacheSet(c, rotKey, ArtValue(artwork), interval, t),
                  artwork |-> artwork]
        ELSE IF Len(enabledSources(config)) = 0
        THEN [st |-> "failed", via |-> "build", cache |-> c, call |-> call,
              pool |-> <<>>, artwork |-> NullArtwork]
        ELSE [st |-> "building", via |-> "build", cache |-> c, call |-> call,
              pool |-> <<>>, artwork |-> NullArtwork]

\* getArtworkByOrientation up to its await: a rotation hit, a pick from the
\* cached pool, or the start of a pool build (which fails at once when no
\* source is enabled).
getArtworkStart(c, t, config, orientation, filters) ==
    LET interval == rotationInterval(orientation)
        slot == rotationSlot(t, interval)
        rotKey == rotationCacheKey(orientation, filters, slot)
        pKey == poolKey(orientation, filters)
        call == [orientation |-> orientation, startedAt |-> t, slot |-> slot,
                 interval |-> interval]
    IN  IF CacheHas(c, rotKey, t)
        THEN [st |-> "ok", via |-> "rotation", cache |-> c, call |-> call,
              pool |-> <<>>, artwork |-> CacheGet(c, rotKey).artwork]
        ELSE IF CacheHas(c, pKey, t) /\ Len(CacheGet(c, pKey).pool) > 0
        THEN LET pool == CacheGet(c, pKey).pool
                 artwork == pool[PickIndex(slot, Len(pool))]
             IN  [st |-> "ok", via |-> "pool", call |-> call, pool |-> pool,
                  cache |-> CacheSet(c, rotKey, ArtValue(artwork), interval, t),
                  artwork |-> artwork]
        ELSE IF Len(enabledSources(config)) = 0
        THEN [st |-> "failed", via |-> "build", cache |-> c, call |-> call,
              pool |-> <<>>, artwork |-> NullArtwork]
        ELSE [st |-> "building", via |-> "build", cache |-> c, call |-> call,
              pool |-> <<>>, artwork |-> NullArtwork]

\* the finish that leaves a pool already cached in place (first write wins)
getArtworkFinishKeepFirst(c, t, call, filters, pool) ==
    LET pKey == poolKey(call.orientation, filters)
        c1 == IF CacheHas(c, pKey, t) THEN c
              ELSE CacheSet(c, pKey, PoolValue(pool), CACHE_DURATIONS.POOL, t)
        artwork == pool[PickIndex(call.slot, Len(pool))]
    IN  [cache |-> CacheSet(c1, rotationCacheKey(call.orientation, filters, call.slot),
                            ArtValue(artwork), call.interval, t),
         artwork |-> artwork]

\* the finish that caches the pick and leaves the pool write for later
getArtworkFinishPickOnly(c, t, call, filters, pool) ==
    LET artwork == pool[PickIndex(call.slot, Len(pool))]
    IN  [cache |-> CacheSet(c, rotationCacheKey(call.orientation, filters, call.slot),
                            ArtValue(artwork), call.interval, t),
         artwork |-> artwork]

\* getArtworkByOrientation after its await resolved with a pool: the pool is
\* cached, the slot's artwork picked and cached under the key of the slot
\* the call started in.
getArtworkFinish(c, t, call, filters, pool) ==
    LET c1 == CacheSet(c, poolKey(call.orientation, filters), PoolValue(pool),
                       CACHE_DURATIONS.POOL, t)
        artwork == pool[PickIndex(call.slot, Len(pool))]
    IN  [cache |-> CacheSet(c1, rotationCacheKey(call.orientation, filters, call.slot),
                            ArtValue(artwork), call.interval, t),
         artwork |-> artwork]

-----------------------------------------------------------------------------
(* The dashboard aggregator's copy of the rotation selector.               *)

ART_CACHE_KEYS == [POOL |-> <<"art", ":", "pool">>, ROTATION |-> <<"art", ":", "rotation">>]

\* the aggregator's start that builds a pool on every rotation miss
aggregatorArtworkStartAlwaysBuilds(c, t, configInForce, orientation, filters) ==
    LET interval == IF orientation \in DOMAIN rotationIntervals
                    THEN rotationIntervals[orientation]
                    ELSE rotationIntervals.landscape
        slot == t \div (interval * 1000)
        fKey == IF filters.hasStyles THEN <<":">> \o join(filters.styles, <<"-">>)
                ELSE <<>>
        rotKey == <<"art", ":", "rotation", ":", orientation>> \o fKey
                      \o <<":", ToString(slot)>>
        call == [orientation |-> orientation, startedAt |-> t, slot |-> slot,
                 interval |-> interval]
    IN  IF CacheHas(c, rotKey, t)
        THEN [st |-> "ok", via |-> "rotation", cache |-> c, call |-> call,
              pool |-> <<>>, artwork |-> CacheGet(c, rotKey).artwork]
        ELSE IF Len(enabledSources(configInForce)) = 0
        THEN [st |-> "failed", via |-> "build", cache |-> c, call |-> call,
              pool |-> <<>>, artwork |-> NullArtwork]
        ELSE [st |-> "building", via |-> "build", cache |-> c, call |-> call,
              pool |-> <<>>, artwork |-> NullArtwork]

aggregatorArtworkStart(c, t, configInForce, orientation, filters) ==
    LET interval == IF orientation \in DOMAIN rotationIntervals
                    THEN rotationIntervals[orientation]
                    ELSE rotationIntervals.landscape
        slot == t \div (interval * 1000)
        fKey == IF filters.hasStyles THEN <<":">> \o join(filters.styles, <<"-">>)
                ELSE <<>>
        rotKey == ART_CACHE_KEYS.ROTATION \o <<":", orientation>> \o fKey
                      \o <<":", ToString(slot)>>
        pKey == ART_CACHE_KEYS.POOL \o <<":", orientation>> \o fKey
        call == [orientation |-> orientation, startedAt |-> t, slot |-> slot,
                 interval |-> interval]
    IN  IF CacheHas(c, rotKey, t)
        THEN [st |-> "ok", via |-> "rotation", cache |-> c, call |-> call,
              pool |-> <<>>, artwork |-> CacheGet(c, rotKey).artwork]
        ELSE IF CacheHas(c, pKey, t) /\ Len(CacheGet(c, pKey).pool) > 0
        THEN LET pool == CacheGet(c, pKey).pool
                 artwork == pool[(slot % Len(pool)) + 1]
             IN  [st |-> "ok", via |-> "pool", call |-> call, pool |-> pool,
                  cache |-> CacheSet(c, rotKey, ArtValue(artwork), interval, t),
                  artwork |-> artwork]
        ELSE IF Len(enabledSources(configInForce)) = 0
        THEN [st |-> "failed", via |-> "build", cache |-> c, call |-> call,
              pool |-> <<>>, artwork |-> NullArtwork]
        ELSE [st |-> "building", via |-> "build", cache |-> c, call |-> call,
              pool |-> <<>>, artwork |-> NullArtwork]

\* the aggregator's finish with the pool cached for one rotation interval
aggregatorArtworkFinishIntervalTtl(c, t, call, filters, pool) ==
    LET fKey == IF filters.hasStyles THEN <<":">> \o join(filters.styles, <<"-">>)
                ELSE <<>>
        pKey == ART_CACHE_KEYS.POOL \o <<":", call.orientation>> \o fKey
        rotKey == ART_CACHE_KEYS.ROTATION \o <<":", call.orientation>> \o fKey
                      \o <<":", ToString(call.slot)>>
        c1 == CacheSet(c, pKey, PoolValue(pool), call.interval, t)
        artwork == pool[(call.slot % Len(pool)) + 1]
    IN  [cache |-> CacheSet(c1, rotKey, ArtValue(artwork), call.interval, t),
         artwork |-> artwork]

aggregatorArtworkFinish(c, t, call, filters, pool) ==
    LET fKey == IF filters.hasStyles THEN <<":">> \o join(filters.styles, <<"-">>)
                ELSE <<>>
        pKey == ART_CACHE_KEYS.POOL \o <<":", call.orientation>> \o fKey
        rotKey == ART_CACHE_KEYS.ROTATION \o <<":", call.orientation>> \o fKey
                      \o <<":", ToString(call.slot)>>
        c1 == CacheSet(c, pKey, PoolValue(pool), poolTtlSeconds, t)
        artwork == pool[(call.slot % Len(pool)) + 1]
    IN  [cache |-> CacheSet(c1, rotKey, ArtValue(artwork), call.interval, t),
         artwork |-> artwork]

-----------------------------------------------------------------------------
(* Requests: GET /current, GET /orientation/:orientation and the           *)
(* dashboard's fetchArtworkData.                                            *)

FanOut == <<"portrait", "landscape", "tv">>
OrientationParams == {"portrait", "landscape", "tv", "square"}

\* the Error objects fetchArtworkPool throws carry neither a status nor an
\* originalError; status 0 stands for "no status property"
PoolError == [status |-> 0, originalError |-> FALSE]

NullData == <<NullArtwork, NullArtwork, NullArtwork>>
NoResponse == [status |-> 0]

\* res.json(body) answers with status 200
Json(status, success, data, warning) ==
    [status |-> status, success |-> success, data |-> data, warning |-> warning]

\* every error answered with its status, no fallback
handleErrorNoFallback(error) ==
    Json(IF error.status = 0 THEN 500 ELSE error.status, FALSE, <<>>, FALSE)

handleError(error) ==
    LET status == IF error.status = 0 THEN 500 ELSE error.status
    IN  IF status = 500 \/ error.originalError
        THEN Json(200, TRUE, NullData, TRUE)
        ELSE Json(status, FALSE, <<>>, FALSE)

\* a call of getArtworkByOrientation as its caller sees it
MkCall(result) ==
    [st |-> result.st, orientation |-> result.call.orientation,
     startedAt |-> result.call.startedAt, slot |-> result.call.slot,
     interval |-> result.call.interval, artwork |-> result.artwork]

\* a join that waits for every call and never rejects
PromiseAllSettled(calls) ==
    IF \A i \in 1..Len(calls) : calls[i].st # "building" THEN "resolved"
    ELSE "pending"

\* Promise.all: rejected as soon as one call has failed, resolved once all
\* have returned
PromiseAll(calls) ==
    IF \E i \in 1..Len(calls) : calls[i].st = "failed" THEN "rejected"
    ELSE IF \A i \in 1..Len(calls) : calls[i].st = "ok" THEN "resolved"
    ELSE "pending"

Artworks(calls) == [i \in 1..Len(calls) |-> calls[i].artwork]

\* what the handler answers once its await settles
Reply(kind, calls) ==
    CASE kind = "dashboard" ->
           IF PromiseAll(calls) = "resolved"
           THEN [success |-> TRUE, data |-> Artworks(calls)]
           ELSE [success |-> FALSE, data |-> <<>>]
      [] kind = "aggregator" ->
           IF PromiseAll(calls) = "resolved"
           THEN [returned |-> calls[1].artwork]
           ELSE [thrown |-> PoolError]
      [] OTHER ->
           IF PromiseAll(calls) = "resolved"
           THEN Json(200, TRUE, Artworks(calls), FALSE)
           ELSE handleError(PoolError)

IdleRequest ==
    [kind |-> "idle", filters |-> NoFilters, calls |-> <<>>, responded |-> FALSE,
     response |-> NoResponse]

\* a request after its calls changed: answered if its await has settled
Settle(request, calls) ==
    IF ~request.responded /\ PromiseAll(calls) # "pending"
    THEN [request EXCEPT !.calls = calls, !.responded = TRUE,
                         !.response = Reply(request.kind, calls)]
    ELSE [request EXCEPT !.calls = calls]

InFlight(request) ==
    \E i \in 1..Len(request.calls) : request.calls[i].st = "building"

PoolContent(c, t, key) ==
    IF CacheHas(c, key, t) THEN CacheGet(c, key).pool ELSE <<>>

\* served after a step: entries whose pool changed under them are dropped,
\* the calls that returned in the step are entered
Observe(c, t, c2, t2, returned) ==
    LET kept == {key \in DOMAIN served :
                    PoolContent(c, t, key) = PoolContent(c2, t2, key)}
        fresh == {entry.key : entry \in returned}
    IN  [key \in kept \cup fresh |->
            IF key \in fresh
            THEN (CHOOSE entry \in returned : entry.key = key).entry
            ELSE served[key]]

Returned(result, filters) ==
    IF result.st = "ok"
    THEN {[key |-> poolKey(result.call.orientation, filters),
           entry |-> [orientation |-> result.call.orientation,
                      startedAt |-> result.call.startedAt,
                      artwork |-> result.artwork]]}
    ELSE {}
-----------------------------------------------------------------------------
(* The rotation selector behind its callers (Spec).  A lane holds one      *)
(* request from its start until the next request takes the lane; a request *)
(* whose pool builds are still running keeps its lane.                     *)

MaxRequests == 1
MaxCalls == 2
MaxTicks == 1
\* a tick is one portrait interval; the clock starts with portrait slot 10
TickMs == rotationIntervals.portrait * 1000
StartMs == 10 * TickMs

\* One request to the art service and one of the dashboard at a time.
Lanes == {"art", "dashboard"}

LaneOf(kind) == IF kind \in {"dashboard", "aggregator"} THEN "dashboard" ELSE "art"

OtherServiceKey == <<"weather", ":", "current">>

IsFree(request) ==
    request.kind = "idle" \/ (request.responded /\ ~InFlight(request))

CanStart(r, kind) ==
    /\ budget > 0
    /\ IsFree(requests[r])
    /\ r = LaneOf(kind)

NewRequest(kind, filters) ==
    [kind |-> kind, filters |-> filters, calls |-> <<>>, responded |-> FALSE,
     response |-> NoResponse]

Init ==
    /\ now = StartMs
    /\ cache = [key \in {OtherServiceKey} |->
                   [value |-> [kind |-> "other"],
                    expires |-> StartMs + (MaxTicks + 1) * TickMs]]
    /\ artConfig \in SourceConfigs
    /\ requests = [r \in Lanes |-> IdleRequest]
    /\ budget = MaxRequests
    /\ served = <<>>
    /\ AdapterIdle
    /\ PoolIdle
    /\ UnitIdle

\* GET /current
getCurrentArtwork(r, filters) ==
    /\ CanStart(r, "current")
    /\ LET r1 == getArtworkStart(cache, now, artConfig, FanOut[1], filters)
           r2 == getArtworkStart(r1.cache, now, artConfig, FanOut[2], filters)
           r3 == getArtworkStart(r2.cache, now, artConfig, FanOut[3], filters)
       IN  /\ requests' = [requests EXCEPT ![r] =
                              Settle(NewRequest("current", filters),
                                     <<MkCall(r1), MkCall(r2), MkCall(r3)>>)]
           /\ cache' = r3.cache
           /\ served' = Observe(cache, now, r3.cache, now,
                                Returned(r1, filters) \cup Returned(r2, filters)
                                    \cup Returned(r3, filters))
    /\ budget' = budget - 1
    /\ UNCHANGED <<now, artConfig, adapterVars, poolVars, unitVars>>

\* GET /orientation/:orientation
getArtworkByOrientationHandler(r, orientation, filters) ==
    /\ CanStart(r, "orientation")
    /\ IF orientation \notin {"portrait", "landscape", "tv"}
       THEN /\ requests' = [requests EXCEPT ![r] =
                               [NewRequest("orientation", filters) EXCEPT
                                   !.responded = TRUE,
                                   !.response = Json(400, FALSE, <<>>, FALSE)]]
            /\ UNCHANGED <<cache, served>>
       ELSE LET r1 == getArtworkStart(cache, now, artConfig, orientation, filters)
            IN  /\ requests' = [requests EXCEPT ![r] =
                                   Settle(NewRequest("orientation", filters),
                                          <<MkCall(r1)>>)]
                /\ cache' = r1.cache
                /\ served' = Observe(cache, now, r1.cache, now, Returned(r1, filters))
    /\ budget' = budget - 1
    /\ UNCHANGED <<now, artConfig, adapterVars, poolVars, unitVars>>

\* the dashboard aggregator's fetchArtworkData
fetchArtworkData(r, filters) ==
    /\ CanStart(r, "dashboard")
    /\ LET r1 == aggregatorArtworkStart(cache, now, artConfig, FanOut[1], filters)
           r2 == aggregatorArtworkStart(r1.cache, now, artConfig, FanOut[2], filters)
           r3 == aggregatorArtworkStart(r2.cache, now, artConfig, FanOut[3], filters)
       IN  /\ requests' = [requests EXCEPT ![r] =
                              Settle(NewRequest("dashboard", filters),
                                     <<MkCall(r1), MkCall(r2), MkCall(r3)>>)]
           /\ cache' = r3.cache
           /\ served' = Observe(cache, now, r3.cache, now,
                                Returned(r1, filters) \cup Returned(r2, filters)
                                    \cup Returned(r3, filters))
    /\ budget' = budget - 1
    /\ UNCHANGED <<now, artConfig, adapterVars, poolVars, unitVars>>

\* fetchArtworkPool settles under a waiting getArtworkByOrientation: with a
\* pool, and the call runs to its return, or with the exhaustion error
PoolBuilt(r, i, builds) ==
    LET request == requests[r]
    IN  /\ request.kind \in {"current", "orientation", "dashboard", "aggregator"}
        /\ i \in 1..Len(request.calls)
        /\ request.calls[i].st = "building"
        /\ \E pool \in builds[request.calls[i].orientation, request.filters] :
              IF pool = <<>>
              THEN /\ requests' = [requests EXCEPT ![r] =
                                      Settle(request,
                                             [request.calls EXCEPT ![i].st = "failed"])]
                   /\ UNCHANGED <<cache, served>>
              ELSE LET call == request.calls[i]
                       fin == IF request.kind \in {"dashboard", "aggregator"}
                              THEN aggregatorArtworkFinish(cache, now, call,
                                                           request.filters, pool)
                              ELSE getArtworkFinish(cache, now, call,
                                                    request.filters, pool)
                       result == [st |-> "ok", via |-> "build", call |-> call,
                                  pool |-> pool, artwork |-> fin.artwork]
                   IN  /\ requests' = [requests EXCEPT ![r] =
                                          Settle(request,
                                                 [request.calls EXCEPT
                                                     ![i].st = "ok",
                                                     ![i].artwork = fin.artwork])]
                       /\ cache' = fin.cache
                       /\ served' = Observe(cache, now, fin.cache, now,
                                            Returned(result, request.filters))
        /\ UNCHANGED <<now, artConfig, budget, adapterVars, poolVars, unitVars>>

\* a refresh that builds only the pools the cache does not hold
refreshPoolsCachedFirst(r, filters) ==
    /\ CanStart(r, "refresh")
    /\ LET calls == [i \in 1..Len(FanOut) |->
                        IF CacheHas(cache, poolKey(FanOut[i], filters), now)
                        THEN [st |-> "ok", orientation |-> FanOut[i],
                              pool |-> CacheGet(cache, poolKey(FanOut[i], filters)).pool]
                        ELSE [st |-> "building", orientation |-> FanOut[i],
                              pool |-> <<>>]]
       IN  requests' = [requests EXCEPT ![r] =
                           Settle(NewRequest("refresh", filters), calls)]
    /\ budget' = budget - 1
    /\ UNCHANGED <<now, cache, artConfig, served, adapterVars, poolVars, unitVars>>

\* POST /refresh up to its await: three pool builds, none reading the cache
refreshPools(r, filters) ==
    /\ CanStart(r, "refresh")
    /\ LET st == IF Len(enabledSources(artConfig)) = 0 THEN "failed" ELSE "building"
           calls == [i \in 1..Len(FanOut) |->
                        [st |-> st, orientation |-> FanOut[i], pool |-> <<>>]]
       IN  requests' = [requests EXCEPT ![r] =
                           Settle(NewRequest("refresh", filters), calls)]
    /\ budget' = budget - 1
    /\ UNCHANGED <<now, cache, artConfig, served, adapterVars, poolVars, unitVars>>

\* a refresh that writes each pool as soon as its build has returned
RefreshBuiltWritesEach(r, i, builds) ==
    LET request == requests[r]
    IN  /\ request.kind = "refresh"
        /\ i \in 1..Len(request.calls)
        /\ request.calls[i].st = "building"
        /\ \E pool \in builds[request.calls[i].orientation, request.filters] :
              LET calls == IF pool = <<>>
                           THEN [request.calls EXCEPT ![i].st = "failed"]
                           ELSE [request.calls EXCEPT ![i].st = "ok", ![i].pool = pool]
                  c1 == IF pool = <<>> THEN cache
                        ELSE CacheSet(cache, poolKey(request.calls[i].orientation,
                                                     request.filters),
                                      PoolValue(pool), CACHE_DURATIONS.POOL, now)
              IN  /\ requests' = [requests EXCEPT ![r] =
                          IF ~request.responded /\ PromiseAll(calls) = "resolved"
                          THEN [request EXCEPT
                                   !.calls = calls, !.responded = TRUE,
                                   !.response =
                                       Json(200, TRUE,
                                            [j \in 1..Len(calls) |-> Len(calls[j].pool)],
                                            FALSE)]
                          ELSE Settle(request, calls)]
                  /\ cache' = c1
                  /\ served' = Observe(cache, now, c1, now, {})
        /\ UNCHANGED <<now, artConfig, budget, adapterVars, poolVars, unitVars>>

\* a refresh that drops the rotation picks when it writes the pools
RefreshBuiltDropsPicks(r, i, builds) ==
    LET request == requests[r]
    IN  /\ request.kind = "refresh"
        /\ i \in 1..Len(request.calls)
        /\ request.calls[i].st = "building"
        /\ \E pool \in builds[request.calls[i].orientation, request.filters] :
              LET calls == IF pool = <<>>
                           THEN [request.calls EXCEPT ![i].st = "failed"]
                           ELSE [request.calls EXCEPT ![i].st = "ok", ![i].pool = pool]
                  kept == {key \in DOMAIN cache : cache[key].value.kind # "artwork"}
                  c0 == [key \in kept |-> cache[key]]
                  c1 == CacheSet(c0, poolKey("portrait", request.filters),
                                 PoolValue(calls[1].pool), CACHE_DURATIONS.POOL, now)
                  c2 == CacheSet(c1, poolKey("landscape", request.filters),
                                 PoolValue(calls[2].pool), CACHE_DURATIONS.POOL, now)
                  c3 == CacheSet(c2, poolKey("tv", request.filters),
                                 PoolValue(calls[3].pool), CACHE_DURATIONS.POOL, now)
              IN  IF ~request.responded /\ PromiseAll(calls) = "resolved"
                  THEN /\ requests' = [requests EXCEPT ![r] =
                              [request EXCEPT
                                  !.calls = calls, !.responded = TRUE,
                                  !.response =
                                      Json(200, TRUE,
                                           [j \in 1..Len(calls) |-> Len(calls[j].pool)],
                                           FALSE)]]
                       /\ cache' = c3
                       /\ served' = Observe(cache, now, c3, now, {})
                  ELSE /\ requests' = [requests EXCEPT ![r] = Settle(request, calls)]
                       /\ UNCHANGED <<cache, served>>
        /\ UNCHANGED <<now, artConfig, budget, adapterVars, poolVars, unitVars>>

\* one of the refresh's builds settles; when the last one has, the three
\* pools are written and the request answered
RefreshBuilt(r, i, builds) ==
    LET request == requests[r]
    IN  /\ request.kind = "refresh"
        /\ i \in 1..Len(request.calls)
        /\ request.calls[i].st = "building"
        /\ \E pool \in builds[request.calls[i].orientation, request.filters] :
              LET calls == IF pool = <<>>
                           THEN [request.calls EXCEPT ![i].st = "failed"]
                           ELSE [request.calls EXCEPT ![i].st = "ok", ![i].pool = pool]
                  fKey == filterKey(request.filters)
                  c1 == CacheSet(cache, CACHE_KEYS.POOL \o <<":", "portrait">> \o fKey,
                                 PoolValue(calls[1].pool), CACHE_DURATIONS.POOL, now)
                  c2 == CacheSet(c1, CACHE_KEYS.POOL \o <<":", "landscape">> \o fKey,
                                 PoolValue(calls[2].pool), CACHE_DURATIONS.POOL, now)
                  c3 == CacheSet(c2, CACHE_KEYS.POOL \o <<":", "tv">> \o fKey,
                                 PoolValue(calls[3].pool), CACHE_DURATIONS.POOL, now)
              IN  IF ~request.responded /\ PromiseAll(calls) = "resolved"
                  THEN /\ requests' = [requests EXCEPT ![r] =
                              [request EXCEPT
                                  !.calls = calls, !.responded = TRUE,
                                  !.response =
                                      Json(200, TRUE,
                                           [j \in 1..Len(calls) |-> Len(calls[j].pool)],
                                           FALSE)]]
                       /\ cache' = c3
                       /\ served' = Observe(cache, now, c3, now, {})
                  ELSE /\ requests' = [requests EXCEPT ![r] = Settle(request, calls)]
                       /\ UNCHANGED <<cache, served>>
        /\ UNCHANGED <<now, artConfig, budget, adapterVars, poolVars, unitVars>>

\* the prefix test that matches the pool keys only
startsWithArtPool(key) ==
    Len(key) >= 3 /\ key[1] = "art" /\ key[2] = ":" /\ key[3] = "pool"

startsWithArt(key) == Len(key) >= 2 /\ key[1] = "art" /\ key[2] = ":"

\* POST /cache/clear
clearCache(r) ==
    /\ CanStart(r, "clear")
    /\ LET artKeys == {key \in CacheKeys(cache) : startsWithArt(key)}
           cleared == IF artKeys # {} THEN CacheDel(cache, artKeys) ELSE cache
       IN  /\ cache' = cleared
           /\ served' = Observe(cache, now, cleared, now, {})
           /\ requests' = [requests EXCEPT ![r] =
                              [NewRequest("clear", NoFilters) EXCEPT
                                  !.responded = TRUE,
                                  !.response = [status |-> 200, success |-> TRUE,
                                                keysCleared |-> Cardinality(artKeys)]]]
    /\ budget' = budget - 1
    /\ UNCHANGED <<now, artConfig, adapterVars, poolVars, unitVars>>

\* time passes; the cache drops what has expired
Tick ==
    /\ now < StartMs + MaxTicks * TickMs
    /\ now' = now + TickMs
    /\ cache' = CacheLive(cache, now')
    /\ served' = Observe(cache, now, cache', now', {})
    /\ UNCHANGED <<artConfig, requests, budget, adapterVars, poolVars, unitVars>>

Next ==
    \/ \E r \in Lanes, filters \in FilterInputs : getCurrentArtwork(r, filters)
    \/ \E r \in Lanes, orientation \in OrientationParams, filters \in FilterInputs :
           getArtworkByOrientationHandler(r, orientation, filters)
    \/ \E r \in Lanes, filters \in FilterInputs : fetchArtworkData(r, filters)
    \/ \E r \in Lanes, i \in 1..Len(FanOut) : PoolBuilt(r, i, FanOutBuilds)
    \/ \E r \in Lanes, filters \in FilterInputs : refreshPools(r, filters)
    \/ \E r \in Lanes, i \in 1..Len(FanOut) : RefreshBuilt(r, i, FanOutBuilds)
    \/ \E r \in Lanes : clearCache(r)
    \/ Tick

Spec == Init /\ [][Next]_vars

-----------------------------------------------------------------------------
(* The two rotation selectors under direct call (SpecRotation): the        *)
(* controller's behind GET /orientation/:orientation, the aggregator's     *)
(* called as fetchArtworkData calls it, for one orientation.               *)

aggregatorCall(r, orientation, filters) ==
    /\ CanStart(r, "aggregator")
    /\ LET r1 == aggregatorArtworkStart(cache, now, artConfig, orientation, filters)
       IN  /\ requests' = [requests EXCEPT ![r] =
                              Settle(NewRequest("aggregator", filters), <<MkCall(r1)>>)]
           /\ cache' = r1.cache
           /\ served' = Observe(cache, now, r1.cache, now, Returned(r1, filters))
    /\ budget' = budget - 1
    /\ UNCHANGED <<now, artConfig, adapterVars, poolVars, unitVars>>

InitRotation ==
    /\ now = StartMs
    /\ cache = <<>>
    /\ artConfig = sources
    /\ requests = [r \in Lanes |-> IdleRequest]
    /\ budget = MaxCalls
    /\ served = <<>>
    /\ AdapterIdle
    /\ PoolIdle
    /\ UnitIdle

\* the orientations asked for here: one whose interval is the tick, one
\* whose slots span two ticks, and (of the handler) an invalid one
RotationParams == {"portrait", "landscape", "square"}

NextRotation ==
    \/ \E r \in Lanes, orientation \in RotationParams, filters \in FilterInputs :
           getArtworkByOrientationHandler(r, orientation, filters)
    \/ \E r \in Lanes, orientation \in RotationParams \ {"square"},
             filters \in FilterInputs :
           aggregatorCall(r, orientation, filters)
    \/ \E r \in Lanes : PoolBuilt(r, 1, SampleBuilds)
    \/ \E r \in Lanes : clearCache(r)
    \/ Tick

SpecRotation == InitRotation /\ [][NextRotation]_vars

-----------------------------------------------------------------------------
(* The artwork-serving requests alone (SpecHttp): GET /current,            *)
(* GET /orientation/:orientation and the dashboard's fetchArtworkData.     *)

NextHttp ==
    \/ \E r \in Lanes, filters \in FilterInputs : getCurrentArtwork(r, filters)
    \/ \E r \in Lanes, orientation \in OrientationParams, filters \in FilterInputs :
           getArtworkByOrientationHandler(r, orientation, filters)
    \/ \E r \in Lanes, filters \in FilterInputs : fetchArtworkData(r, filters)
    \/ \E r \in Lanes, i \in 1..Len(FanOut) : PoolBuilt(r, i, FanOutBuilds)
    \/ Tick

SpecHttp == Init /\ [][NextHttp]_vars

-----------------------------------------------------------------------------
(* Properties of the rotation selectors (SpecRotation) *)

\* the slot a call's start time falls in, from the configured intervals
SlotAt(orientation, t) == t \div (rotationIntervals[orientation] * 1000)

\* C1: for a fixed orientation and fixed filters (one pool key), while the
\* pool's contents do not change, a call returns the same artwork as the
\* call before it whenever both started in the same rotation slot.
C1_DeterministicWithinSlot ==
    [][\A key \in DOMAIN served \cap DOMAIN served' :
          (/\ PoolContent(cache, now, key) = PoolContent(cache', now', key)
           /\ SlotAt(served[key].orientation, served[key].startedAt)
                  = SlotAt(served'[key].orientation, served'[key].startedAt))
          => served'[key].artwork = served[key].artwork]_vars

\* a call that started a tick after the clock's start has returned the
\* artwork which a call at the clock's start, in the same slot, had picked
C1_Witness ==
    \E orientation \in DOMAIN rotationIntervals, filters \in FilterInputs :
        LET key == poolKey(orientation, filters)
            rotKey == rotationCacheKey(orientation, filters,
                                       SlotAt(orientation, StartMs))
        IN  /\ key \in DOMAIN served
            /\ served[key].startedAt = StartMs + TickMs
            /\ SlotAt(orientation, served[key].startedAt) = SlotAt(orientation, StartMs)
            /\ rotKey \in DOMAIN cache
            /\ cache[rotKey].expires = StartMs + rotationIntervals[orientation] * 1000
            /\ served[key].artwork = cache[rotKey].value.artwork

IsSelectorCall(request) ==
    request.kind \in {"current", "orientation", "dashboard", "aggregator"}

\* call i of lane r returns in this step after a rotation-cache miss: from a
\* pool build that settles, or at its start from the cached pool
ReturnsAfterMiss(r, i) ==
    /\ IsSelectorCall(requests'[r])
    /\ i \in 1..Len(requests'[r].calls)
    /\ requests'[r].calls[i].st = "ok"
    /\ IF budget' = budget
       THEN /\ i \in 1..Len(requests[r].calls)
            /\ requests[r].calls[i].st = "building"
       ELSE /\ requests'[r] # requests[r]
            /\ ~CacheHas(cache,
                         rotationCacheKey(requests'[r].calls[i].orientation,
                                          requests'[r].filters,
                                          SlotAt(requests'[r].calls[i].orientation, now)),
                         now)

\* C2: a call that missed the rotation cache returns
\* pool[slot mod pool.length], slot = floor(start time / (interval * 1000)),
\* of the pool it leaves cached; of a pool of three, the second member in
\* slot 10 and the third in slot 11.
C2_PickBySlot ==
    [][\A r \in Lanes, i \in 1..Len(FanOut) :
          ReturnsAfterMiss(r, i) =>
              LET call == requests'[r].calls[i]
                  pool == PoolContent(cache', now',
                                      poolKey(call.orientation, requests'[r].filters))
                  slot == call.startedAt \div (rotationIntervals[call.orientation] * 1000)
              IN  /\ Len(pool) > 0
                  /\ call.artwork = pool[(slot % Len(pool)) + 1]
                  /\ (Len(pool) = 3 /\ slot = 10) => call.artwork = pool[2]
                  /\ (Len(pool) = 3 /\ slot = 11) => call.artwork = pool[3]]_vars

\* of a portrait pool [A, B, C], the dashboard's call in slot 10 got B and the
\* art service's call in slot 11 got C
C2_Witness ==
    \E filters \in FilterInputs :
        LET pool == PoolContent(cache, now, poolKey("portrait", filters))
            first == requests["dashboard"]
            second == requests["art"]
        IN  /\ Len(pool) = 3
            /\ first.kind = "aggregator" /\ second.kind = "orientation"
            /\ first.filters = filters /\ second.filters = filters
            /\ Len(first.calls) = 1 /\ Len(second.calls) = 1
            /\ first.calls[1].orientation = "portrait"
            /\ second.calls[1].orientation = "portrait"
            /\ first.calls[1].st = "ok" /\ second.calls[1].st = "ok"
            /\ SlotAt("portrait", first.calls[1].startedAt) = 10
            /\ SlotAt("portrait", second.calls[1].startedAt) = 11
            /\ first.calls[1].artwork = pool[2]
            /\ second.calls[1].artwork = pool[3]
            /\ pool[2] # pool[3]

-----------------------------------------------------------------------------
(* Properties of the artwork-serving requests (SpecHttp) *)

SomeCallFailed(request) ==
    \E i \in 1..Len(request.calls) : request.calls[i].st = "failed"

\* C9: when artwork retrieval fails under GET /current or
\* GET /orientation/:orientation (the pool build ends exhausted, or no source
\* is enabled), the answer is status 200, success, every artwork field null,
\* and the warning.
C9_FailureDegradesToFallback ==
    \A r \in Lanes :
        (/\ requests[r].kind \in {"current", "orientation"}
         /\ SomeCallFailed(requests[r]))
        => /\ requests[r].responded
           /\ requests[r].response.status = 200
           /\ requests[r].response.success
           /\ requests[r].response.warning
           /\ requests[r].response.data = <<NullArtwork, NullArtwork, NullArtwork>>

\* with sources enabled, a single-orientation request whose pool build ended
\* exhausted has been answered with the fallback
C9_Witness ==
    \E r \in Lanes :
        /\ requests[r].kind = "orientation"
        /\ Len(enabledSources(artConfig)) > 0
        /\ SomeCallFailed(requests[r])
        /\ requests[r].responded
        /\ requests[r].response.status = 200
        /\ requests[r].response.warning

\* C10 as stated: in the three-orientation fan-out the caller is handed the
\* artwork of every orientation that succeeded, whatever the others did.
C10_SucceededAreReturned ==
    \A r \in Lanes :
        (requests[r].kind \in {"current", "dashboard"} /\ requests[r].responded)
        => \A i \in 1..Len(requests[r].calls) :
               requests[r].calls[i].st = "ok"
               => /\ Len(requests[r].response.data) >= i
                  /\ requests[r].response.data[i] = requests[r].calls[i].artwork

\* C10: the three-orientation fan-out is all or nothing.  If any
\* orientation's fetch failed, GET /current answers with all three artwork
\* fields null and the warning, and fetchArtworkData returns success false
\* with no data; only when all three succeeded does the caller get artworks,
\* and then all three.
C10_FanOutAllOrNothing ==
    \A r \in Lanes :
        (requests[r].kind \in {"current", "dashboard"} /\ requests[r].responded)
        => IF SomeCallFailed(requests[r])
           THEN IF requests[r].kind = "current"
                THEN /\ requests[r].response.status = 200
                     /\ requests[r].response.warning
                     /\ requests[r].response.data
                            = <<NullArtwork, NullArtwork, NullArtwork>>
                ELSE /\ ~requests[r].response.success
                     /\ requests[r].response.data = <<>>
           ELSE /\ \A i \in 1..Len(requests[r].calls) : requests[r].calls[i].st = "ok"
                /\ requests[r].response.success
                /\ requests[r].response.data
                       = [i \in 1..Len(requests[r].calls) |-> requests[r].calls[i].artwork]

\* GET /current answered with three nulls although one orientation had its
\* artwork and only another one failed
C10_Witness ==
    \E r \in Lanes :
        /\ requests[r].kind = "current"
        /\ requests[r].responded
        /\ \E i, j \in 1..Len(requests[r].calls) :
               /\ requests[r].calls[i].st = "failed"
               /\ requests[r].calls[j].st = "ok"
               /\ requests[r].calls[j].artwork # NullArtwork
        /\ requests[r].response.data = <<NullArtwork, NullArtwork, NullArtwork>>


-----------------------------------------------------------------------------
(* Source selection under weights of zero *)

\* the weight config.sources gives a key; -1 for a key it does not hold
ConfiguredWeight(config, key) ==
    IF \E i \in 1..Len(config) : config[i].key = key
    THEN (CHOOSE cfg \in {config[i] : i \in 1..Len(config)} : cfg.key = key).weight
    ELSE -1

AllEnabledWeighZero(config) ==
    /\ \E i \in 1..Len(config) : config[i].enabled
    /\ \A i \in 1..Len(config) : config[i].enabled => config[i].weight = 0

\* C11: no attempt of the pool builder queries a source whose configured
\* weight is 0: the key pickWeightedSource returned for the attempt has a
\* nonzero weight in config.sources.
C11_ZeroWeightNeverSelected ==
    pLast.sourceKey \in SourceKeys => ConfiguredWeight(pConfig, pLast.sourceKey) # 0

\* C14: when every enabled source has weight 0, fetchArtworkPool throws
\* before the loop: it never enters the loop, calls no adapter and never
\* sleeps.
C14_AllZeroWeightsFailFast ==
    AllEnabledWeighZero(pConfig) =>
        /\ pPc \in {"start", "thrown"}
        /\ pCalls = 0
        /\ pSleeps = 0


\* C13: with no source enabled, the only step fetchArtworkPool takes is the
\* throw: the step ends in the thrown state with no adapter called and no
\* sleep taken, and no step follows it (nothing is retried).
C13_NoSourcesFailsFast ==
    [][(\A i \in 1..Len(pConfig) : ~pConfig[i].enabled) =>
          /\ pPc = "start"
          /\ pPc' = "thrown"
          /\ pCalls' = 0
          /\ pSleeps' = 0
          /\ pLast' = NoAttempt]_vars

C13_Witness ==
    /\ \A i \in 1..Len(pConfig) : ~pConfig[i].enabled
    /\ pPc = "thrown"
    /\ pPoolSize > 0


-----------------------------------------------------------------------------
(* art/client.js: pickWeightedSource, one call per roll.  Math.random() is *)
(* swept over [0, totalWeight) in half units: an odd roll2 = 2k + 1 stands *)
(* for the rolls of the open interval (k, k + 1), on which the walk takes  *)
(* the same branches since the cursor is a whole number; an even roll2 is  *)
(* the single roll k.                                                      *)

Entry(key, weight) == [key |-> key, weight |-> weight]

SelectionInputs ==
    {enabledSources(config) : config \in SourceConfigs \cup ZeroWeightConfigs}
    \cup {<<Entry("artic", 1), Entry("met", 2)>>,
          <<Entry("artic", 0), Entry("met", 3)>>,
          <<Entry("artic", 2), Entry("met", 0), Entry("cleveland", 1)>>}

EntryKeys(sourceEntries) == {sourceEntries[i].key : i \in 1..Len(sourceEntries)}

InitSelection ==
    /\ sEntries \in SelectionInputs
    /\ sRoll = 0
    /\ sTally = [key \in EntryKeys(sEntries) \cup {"undefined"} |-> 0]
    /\ sKey = "none"
    /\ OrientationIdle
    /\ AdapterIdle
    /\ PoolIdle
    /\ RotationIdle

\* one call of pickWeightedSource, with the next roll of the sweep
Pick ==
    /\ sRoll \in Rolls(sEntries)
    /\ sKey = "none" \/ totalWeight(sEntries) > 0
    /\ LET key == pickWeightedSource(sEntries, sRoll)
       IN  /\ sKey' = key
           /\ sTally' = IF sRoll % 2 = 1
                        THEN [sTally EXCEPT ![key] = @ + 1]
                        ELSE sTally
    /\ sRoll' = sRoll + 1
    /\ UNCHANGED <<sEntries, orientationVars>>
    /\ UNCHANGED <<adapterVars, poolVars, rotationVars>>

NextSelection == Pick

SpecSelection == InitSelection /\ [][NextSelection]_vars

-----------------------------------------------------------------------------
(* art/client.js: deriveOrientation, one call *)

MaxDim == 3

Dimensions ==
    {Num(n) : n \in (0 - MaxDim)..MaxDim} \cup {Undefined, JsNull, Infinite, NotANumber}

InitOrientation ==
    /\ oPc = "call"
    /\ oWidth \in Dimensions
    /\ oHeight \in Dimensions
    /\ oResult = NoOrientation
    /\ SelectionIdle
    /\ AdapterIdle
    /\ PoolIdle
    /\ RotationIdle

DeriveOrientation ==
    /\ oPc = "call"
    /\ oResult' = deriveOrientation(oWidth, oHeight)
    /\ oPc' = "returned"
    /\ UNCHANGED <<oWidth, oHeight, selectionVars>>
    /\ UNCHANGED <<adapterVars, poolVars, rotationVars>>

NextOrientation == DeriveOrientation

SpecOrientation == InitOrientation /\ [][NextOrientation]_vars

-----------------------------------------------------------------------------
(* Selection shares and orientation derivation *)

SweepDone == sRoll = 2 * totalWeight(sEntries) /\ totalWeight(sEntries) > 0

\* C12: over a roll uniform on [0, total), the rolls pickWeightedSource maps
\* to a source fill as many unit intervals as the source's weight: its share
\* of the draws is weight / total.
C12_SharesProportional ==
    SweepDone =>
        \A i \in 1..Len(sEntries) : sTally[sEntries[i].key] = sEntries[i].weight

C12_Witness ==
    /\ SweepDone
    /\ sEntries = enabledSources(sources)
    /\ sTally["artic"] = 35 /\ sTally["met"] = 35 /\ sTally["cleveland"] = 20

\* a dimension that is a finite number other than zero
UsableDim(x) == x.kind = "num" /\ x.v # 0

\* C17: deriveOrientation returns null when either dimension is zero,
\* missing or not finite, or when the two are equal; otherwise "portrait"
\* when height > width and "landscape" when width > height.
C17_DeriveOrientation ==
    oPc = "returned" =>
        oResult = IF ~UsableDim(oWidth) \/ ~UsableDim(oHeight) \/ oWidth.v = oHeight.v
                  THEN NoOrientation
                  ELSE IF oHeight.v > oWidth.v THEN "portrait" ELSE "landscape"

C17_Witness ==
    /\ oPc = "returned"
    /\ oWidth = Num(0)
    /\ oHeight = Num(2)
    /\ oResult = NoOrientation


-----------------------------------------------------------------------------
(* POST /cache/clear on the cache the art service shares with the weather, *)
(* transit and dashboard services (SpecCache).                             *)

OtherServiceKeys ==
    {OtherServiceKey, <<"transit", ":", "all">>, <<"dashboard", ":", "data", ":", "default">>}

InitCache ==
    /\ now = StartMs
    /\ cache = [key \in OtherServiceKeys |->
                   [value |-> [kind |-> "other", of |-> key[1]],
                    expires |-> StartMs + (MaxTicks + 1) * TickMs]]
    /\ artConfig = sources
    /\ requests = [r \in Lanes |-> IdleRequest]
    /\ budget = MaxCalls
    /\ served = <<>>
    /\ AdapterIdle
    /\ PoolIdle
    /\ UnitIdle

NextCache ==
    \/ \E r \in Lanes, orientation \in RotationParams, filters \in FilterInputs :
           getArtworkByOrientationHandler(r, orientation, filters)
    \/ \E r \in Lanes : PoolBuilt(r, 1, SampleBuilds)
    \/ \E r \in Lanes : clearCache(r)
    \/ Tick

SpecCache == InitCache /\ [][NextCache]_vars

\* a key of the art service: the text starts with "art:"
ArtPrefixed(key) == Len(key) >= 2 /\ SubSeq(key, 1, 2) = <<"art", ":">>

\* the step is a POST /cache/clear handled in lane r
IsClearStep(r) ==
    /\ budget' = budget - 1
    /\ \A q \in Lanes \ {r} : requests'[q] = requests[q]
    /\ requests'[r].kind = "clear"

\* C15: POST /cache/clear removes exactly the keys starting with "art:",
\* leaves every other key with its value and expiry, and reports as
\* keysCleared the number of art: keys the cache held before the call.
C15_ClearDeletesArtKeysOnly ==
    [][\A r \in Lanes : IsClearStep(r) =>
          /\ DOMAIN cache' = {key \in DOMAIN cache : ~ArtPrefixed(key)}
          /\ \A key \in DOMAIN cache' : cache'[key] = cache[key]
          /\ requests'[r].response.keysCleared =
                 Cardinality({key \in DOMAIN cache : ArtPrefixed(key)})]_vars

C15_Witness ==
    /\ requests["art"].kind = "clear"
    /\ requests["art"].response.keysCleared = 2
    /\ DOMAIN cache = OtherServiceKeys


-----------------------------------------------------------------------------
(* POST /refresh after GET /orientation/:orientation has filled the cache  *)
(* (SpecRefresh).                                                          *)

InitRefresh ==
    /\ now = StartMs
    /\ cache = <<>>
    /\ artConfig = sources
    /\ requests = [r \in Lanes |-> IdleRequest]
    /\ budget = MaxCalls
    /\ served = <<>>
    /\ AdapterIdle
    /\ PoolIdle
    /\ UnitIdle

NextRefresh ==
    \/ \E r \in Lanes, filters \in FilterInputs :
           getArtworkByOrientationHandler(r, "portrait", filters)
    \/ \E r \in Lanes : PoolBuilt(r, 1, SampleBuilds)
    \/ \E r \in Lanes, filters \in FilterInputs : refreshPools(r, filters)
    \/ \E r \in Lanes, i \in 1..Len(FanOut) : RefreshBuilt(r, i, SampleBuilds)
    \/ Tick

SpecRefresh == InitRefresh /\ [][NextRefresh]_vars

\* the text of a pool key: "art:pool:<orientation>" and ":<styles>" if any
PoolKeyText(orientation, filters) ==
    <<"art", ":", "pool", ":", orientation>>
        \o (IF filters.hasStyles THEN <<":">> \o join(filters.styles, <<"-">>) ELSE <<>>)

\* the step starts a POST /refresh in lane r
IsRefreshStart(r) ==
    /\ budget' = budget - 1
    /\ \A q \in Lanes \ {r} : requests'[q] = requests[q]
    /\ requests'[r].kind = "refresh"

\* the step is the one in which the refresh of lane r succeeds
IsRefreshSuccess(r) ==
    /\ requests[r].kind = "refresh"
    /\ ~requests[r].responded
    /\ requests'[r].responded
    /\ \A i \in 1..Len(FanOut) : requests'[r].calls[i].st = "ok"

\* C16: POST /refresh starts a pool build for each of portrait, landscape
\* and tv whatever the cache holds, without touching the cache; when the
\* three builds have succeeded, each of the three pool keys holds the pool
\* its build returned, with the pool TTL counted from that moment.
C16_RefreshBypassesCache ==
    [][\A r \in Lanes :
          /\ IsRefreshStart(r) =>
                /\ Len(requests'[r].calls) = Len(FanOut)
                /\ \A i \in 1..Len(FanOut) :
                      /\ requests'[r].calls[i].orientation = FanOut[i]
                      /\ requests'[r].calls[i].st = "building"
                /\ cache' = cache
          /\ IsRefreshSuccess(r) =>
                \A i \in 1..Len(FanOut) :
                   LET key == PoolKeyText(FanOut[i], requests[r].filters)
                   IN  /\ key \in DOMAIN cache'
                       /\ cache'[key].value.kind = "pool"
                       /\ cache'[key].value.pool = requests'[r].calls[i].pool
                       /\ requests'[r].calls[i].pool # <<>>
                       /\ cache'[key].expires = now + poolTtlSeconds * 1000]_vars

\* a refresh has succeeded and replaced a portrait pool from which an
\* artwork had been served: the rotation pick is not in the pool now cached
C16_Witness ==
    /\ requests["art"].kind = "refresh"
    /\ requests["art"].responded
    /\ \A i \in 1..Len(FanOut) : requests["art"].calls[i].st = "ok"
    /\ \E key \in DOMAIN cache :
          /\ cache[key].value.kind = "artwork"
          /\ PoolKeyText("portrait", requests["art"].filters) \in DOMAIN cache
          /\ \A j \in 1..Len(cache[PoolKeyText("portrait", requests["art"].filters)].value.pool) :
                cache[PoolKeyText("portrait", requests["art"].filters)].value.pool[j]
                    # cache[key].value.artwork


-----------------------------------------------------------------------------
(* Overlapping pool builds for one key *)

\* the pool build under the call of lane r returns a pool in this step
BuildReturns(r) ==
    /\ Len(requests[r].calls) = 1
    /\ requests[r].calls[1].st = "building"
    /\ requests'[r].calls[1].st = "ok"

KeyOfCall(r) == PoolKeyText(requests[r].calls[1].orientation, requests[r].filters)

\* C18 as stated: a build that returns while the pool key is already set by
\* an overlapping request writes the pool that is cached, so the cached pool
\* does not depend on which of the two finishes last.
C18_ConcurrentWritesSameContent ==
    [][\A r \in Lanes :
          (BuildReturns(r) /\ KeyOfCall(r) \in DOMAIN cache) =>
              cache'[KeyOfCall(r)].value = cache[KeyOfCall(r)].value]_vars

\* C18, as the code has it: a build that returns replaces whatever the pool
\* key holds by its own pool as a whole, with a fresh TTL, and the call
\* returns the pick from its own pool; the last writer's pool stays cached.
C18_LastWriteWins ==
    [][\A r \in Lanes :
          BuildReturns(r) =>
              LET entry == cache'[KeyOfCall(r)]
                  call == requests'[r].calls[1]
              IN  /\ KeyOfCall(r) \in DOMAIN cache'
                  /\ entry.expires = now + poolTtlSeconds * 1000
                  /\ entry.value.pool \in
                         SampleBuilds[call.orientation, requests[r].filters]
                  /\ call.artwork =
                         entry.value.pool[(call.slot % Len(entry.value.pool)) + 1]]_vars

\* two overlapping calls for one key and one slot have both built and
\* returned, with different artworks; the pool cached is the one the
\* dashboard's call built
C18_Witness ==
    LET a == requests["art"]
        d == requests["dashboard"]
    IN  /\ a.kind = "orientation" /\ d.kind = "aggregator"
        /\ Len(a.calls) = 1 /\ Len(d.calls) = 1
        /\ a.calls[1].st = "ok" /\ d.calls[1].st = "ok"
        /\ a.calls[1].orientation = d.calls[1].orientation
        /\ a.filters = d.filters
        /\ a.calls[1].slot = d.calls[1].slot
        /\ a.calls[1].artwork # d.calls[1].artwork
        /\ KeyOfCall("art") \in DOMAIN cache
        /\ LET pool == cache[KeyOfCall("art")].value.pool
           IN  /\ d.calls[1].artwork = pool[(d.calls[1].slot % Len(pool)) + 1]
               /\ \A j \in 1..Len(pool) : pool[j] # a.calls[1].artwork


-----------------------------------------------------------------------------
(* Rotation-cache hits *)

\* the text of a rotation key:
\* "art:rotation:<orientation>[:<styles>]:<slot>"
RotationKeyText(orientation, filters, slot) ==
    <<"art", ":", "rotation", ":", orientation>>
        \o (IF filters.hasStyles THEN <<":">> \o join(filters.styles, <<"-">>) ELSE <<>>)
        \o <<":", ToString(slot)>>

\* the step starts one call of a rotation selector in lane r
IsSelectorStart(r) ==
    \E orientation \in {"portrait", "landscape", "tv"}, filters \in FilterInputs :
        \/ getArtworkByOrientationHandler(r, orientation, filters)
        \/ aggregatorCall(r, orientation, filters)

\* the rotation key of the call lane r starts in this step
KeyOfStart(r) ==
    RotationKeyText(requests'[r].calls[1].orientation, requests'[r].filters,
                    SlotAt(requests'[r].calls[1].orientation, now))

\* what the selector of lane r returns at once on the cache c
StartOn(r, c) ==
    IF requests'[r].kind = "aggregator"
    THEN aggregatorArtworkStart(c, now, artConfig, requests'[r].calls[1].orientation,
                                requests'[r].filters)
    ELSE getArtworkStart(c, now, artConfig, requests'[r].calls[1].orientation,
                         requests'[r].filters)

\* C19: a call that finds its rotation key (orientation, filter signature,
\* slot) in the cache returns the artwork stored there at once: no pool
\* build is started, the cache is left as it was, and the result is the same
\* whatever the pool key holds.
C19_RotationHitDoesNoWork ==
    [][\A r \in Lanes :
          (IsSelectorStart(r) /\ KeyOfStart(r) \in DOMAIN cache
               /\ now < cache[KeyOfStart(r)].expires) =>
              LET call == requests'[r].calls[1]
                  pKey == PoolKeyText(call.orientation, requests'[r].filters)
              IN  /\ call.st = "ok"
                  /\ call.artwork = cache[KeyOfStart(r)].value.artwork
                  /\ requests'[r].responded
                  /\ cache' = cache
                  /\ StartOn(r, CacheDel(cache, {pKey})).st = "ok"
                  /\ StartOn(r, CacheDel(cache, {pKey})).artwork = call.artwork
                  /\ StartOn(r, CacheDel(cache, {pKey})).cache
                         = CacheDel(cache, {pKey})]_vars

\* a call has returned the artwork of a rotation entry that was set before
\* the call started
C19_Witness ==
    \E r \in Lanes :
        /\ requests[r].kind \in {"orientation", "aggregator"}
        /\ Len(requests[r].calls) = 1
        /\ requests[r].calls[1].st = "ok"
        /\ LET call == requests[r].calls[1]
               key == RotationKeyText(call.orientation, requests[r].filters, call.slot)
           IN  /\ key \in DOMAIN cache
               /\ cache[key].expires - call.interval * 1000 < call.startedAt
               /\ cache[key].value.artwork = call.artwork


-----------------------------------------------------------------------------
(* Sequential calls of the two rotation selectors over more than one pool  *)
(* TTL (SpecTtl): a call starts only when no call is waiting for a build,  *)
(* and the clock moves through the instants just after the start and just  *)
(* before, at and after the end of the first pool's TTL.                   *)

PoolTtlMs == CACHE_DURATIONS.POOL * 1000

TtlInstants ==
    {StartMs + d : d \in {0, TickMs, PoolTtlMs - TickMs, PoolTtlMs, PoolTtlMs + TickMs}}

InitTtl ==
    /\ now = StartMs
    /\ cache = <<>>
    /\ artConfig = sources
    /\ requests = [r \in Lanes |-> IdleRequest]
    /\ budget = MaxCalls + 1
    /\ served = <<>>
    /\ AdapterIdle
    /\ PoolIdle
    /\ UnitIdle

NoneInFlight == \A r \in Lanes : ~InFlight(requests[r])

\* the clock reaches the next instant; the cache drops what has expired
Elapse ==
    /\ \E t \in TtlInstants : t > now
    /\ now' = CHOOSE t \in TtlInstants :
                 t > now /\ \A u \in TtlInstants : u > now => t <= u
    /\ cache' = CacheLive(cache, now')
    /\ served' = Observe(cache, now, cache', now', {})
    /\ UNCHANGED <<artConfig, requests, budget, adapterVars, poolVars, unitVars>>

NextTtl ==
    \/ \E r \in Lanes, filters \in FilterInputs :
           NoneInFlight /\ getArtworkByOrientationHandler(r, "portrait", filters)
    \/ \E r \in Lanes, filters \in FilterInputs :
           NoneInFlight /\ aggregatorCall(r, "portrait", filters)
    \/ \E r \in Lanes : PoolBuilt(r, 1, SampleBuilds)
    \/ Elapse

SpecTtl == InitTtl /\ [][NextTtl]_vars


\* the key is in the cache and has not expired
LiveIn(c, key, t) == key \in DOMAIN c /\ t < c[key].expires

\* a call that starts with a rotation miss invokes the pool builder exactly
\* when its pool key is not in the cache
BuilderInvokedIffPoolAbsent(r) ==
    (IsSelectorStart(r) /\ ~LiveIn(cache, KeyOfStart(r), now)) =>
        LET call == requests'[r].calls[1]
            pKey == PoolKeyText(call.orientation, requests'[r].filters)
        IN  (call.st \in {"building", "failed"}) <=> ~LiveIn(cache, pKey, now)

\* a build that returns stores its pool under the pool key for poolTtlSeconds
StoredWithPoolTtl(r) ==
    BuildReturns(r) =>
        /\ KeyOfCall(r) \in DOMAIN cache'
        /\ cache'[KeyOfCall(r)].value.kind = "pool"
        /\ Len(cache'[KeyOfCall(r)].value.pool) > 0
        /\ cache'[KeyOfCall(r)].expires = now + poolTtlSeconds * 1000

\* a cached pool is neither dropped nor replaced before its TTL has run out
PoolKeptForTtl ==
    \A key \in DOMAIN cache :
        (cache[key].value.kind = "pool" /\ now' < cache[key].expires) =>
            (key \in DOMAIN cache' /\ cache'[key] = cache[key])

\* the call that starts in lane r invokes the pool builder although the
\* call last made in lane q invoked it for the same key less than one pool
\* TTL ago (and failed)
SecondInvocationInWindow(r, q) ==
    /\ IsSelectorStart(r)
    /\ requests'[r].calls[1].st = "building"
    /\ requests[q].kind \in {"orientation", "aggregator"}
    /\ Len(requests[q].calls) = 1
    /\ requests[q].calls[1].st = "failed"
    /\ requests[q].calls[1].orientation = requests'[r].calls[1].orientation
    /\ requests[q].filters = requests'[r].filters
    /\ now - requests[q].calls[1].startedAt < poolTtlSeconds * 1000

\* C20 as stated: on a rotation miss the builder is invoked iff the pool key
\* is absent, the built pool is stored with TTL poolTtlSeconds, and
\* sequential requests invoke the pool builder at most once per key within
\* one pool TTL.
C20_AtMostOneBuildPerWindow ==
    [][/\ \A r \in Lanes : BuilderInvokedIffPoolAbsent(r) /\ StoredWithPoolTtl(r)
       /\ \A r \in Lanes, q \in Lanes : ~SecondInvocationInWindow(r, q)]_vars

\* C20, as the code has it: on a rotation miss the builder is invoked iff the
\* pool key is absent; a build that returns a pool stores it with TTL
\* poolTtlSeconds, and under sequential requests that pool stays as it is
\* until the TTL has run out, so at most one build per key succeeds within
\* one pool TTL.
C20_OneStoredPoolPerWindow ==
    [][/\ \A r \in Lanes : BuilderInvokedIffPoolAbsent(r) /\ StoredWithPoolTtl(r)
       /\ PoolKeptForTtl]_vars

\* a call made after the pool was stored, and before its TTL ran out, missed
\* the rotation cache and was served from the stored pool: the rotation
\* entry is the call's own, the pool entry is older than the call
C20_Witness ==
    \E r \in Lanes :
        /\ requests[r].kind \in {"orientation", "aggregator"}
        /\ Len(requests[r].calls) = 1
        /\ requests[r].calls[1].st = "ok"
        /\ LET call == requests[r].calls[1]
               rotKey == RotationKeyText(call.orientation, requests[r].filters, call.slot)
               pKey == PoolKeyText(call.orientation, requests[r].filters)
           IN  /\ rotKey \in DOMAIN cache
               /\ cache[rotKey].expires = call.startedAt + call.interval * 1000
               /\ pKey \in DOMAIN cache
               /\ cache[pKey].expires - poolTtlSeconds * 1000 < call.startedAt
               /\ call.startedAt = StartMs + poolTtlSeconds * 1000 - TickMs


-----------------------------------------------------------------------------
(* Sequential landscape calls over more than one pool TTL (SpecLifecycle). *)
(* The landscape interval (420 s) does not divide the pool TTL, so the     *)
(* slot that holds the end of the first pool's TTL starts before it and    *)
(* ends after it: slot 15 holds StartMs + 3300 s and StartMs + 3600 s,     *)
(* slot 16 holds StartMs + 3900 s.                                         *)

NextLifecycle ==
    \/ \E r \in Lanes, filters \in FilterInputs :
           NoneInFlight /\ getArtworkByOrientationHandler(r, "landscape", filters)
    \/ \E r \in Lanes, filters \in FilterInputs :
           NoneInFlight /\ aggregatorCall(r, "landscape", filters)
    \/ \E r \in Lanes : PoolBuilt(r, 1, SampleBuilds)
    \/ Elapse

SpecLifecycle == InitTtl /\ [][NextLifecycle]_vars

\* the pool key of the call that starts in lane r
PoolKeyOfStart(r) ==
    PoolKeyText(requests'[r].calls[1].orientation, requests'[r].filters)

\* C21 as stated: once a pool's TTL has run out, the next call for its
\* orientation and filters invokes the pool builder.
C21_NextAccessRebuilds ==
    [][\A r \in Lanes :
          (IsSelectorStart(r) /\ ~LiveIn(cache, PoolKeyOfStart(r), now)) =>
              requests'[r].calls[1].st = "building"]_vars

\* no pool in the cache is older than poolTtlSeconds
NoPoolPastTtl ==
    \A key \in DOMAIN cache' :
        cache'[key].value.kind = "pool" =>
            /\ now' < cache'[key].expires
            /\ cache'[key].expires <= now' + poolTtlSeconds * 1000

\* C21, as the code has it: a pool is in the cache for poolTtlSeconds and no
\* longer.  A call that finds no pool under its key is answered from the
\* rotation entry of its slot while that entry lives (a pick of the pool
\* that has expired), and otherwise invokes the pool builder; the build that
\* returns stores a fresh pool and answers with that pool's member for the
\* slot.
C21_RebuildOnMissAfterTtl ==
    [][/\ NoPoolPastTtl
       /\ \A r \in Lanes :
            (IsSelectorStart(r) /\ ~LiveIn(cache, PoolKeyOfStart(r), now)) =>
                /\ cache' = cache
                /\ IF LiveIn(cache, KeyOfStart(r), now)
                   THEN /\ requests'[r].calls[1].st = "ok"
                        /\ requests'[r].calls[1].artwork
                               = cache[KeyOfStart(r)].value.artwork
                   ELSE requests'[r].calls[1].st = "building"
       /\ \A r \in Lanes :
            BuildReturns(r) =>
                /\ KeyOfCall(r) \in DOMAIN cache'
                /\ cache'[KeyOfCall(r)].expires = now + poolTtlSeconds * 1000
                /\ LET pool == cache'[KeyOfCall(r)].value.pool
                       call == requests'[r].calls[1]
                   IN  /\ Len(pool) > 0
                       /\ call.artwork = pool[(call.slot % Len(pool)) + 1]]_vars

\* a call that started after the first pool's TTL had run out has built: the
\* pool in the cache is its own, stored when the call started or later
C21_Witness ==
    \E r \in Lanes :
        /\ requests[r].kind \in {"orientation", "aggregator"}
        /\ Len(requests[r].calls) = 1
        /\ requests[r].calls[1].st = "ok"
        /\ requests[r].calls[1].startedAt >= StartMs + poolTtlSeconds * 1000
        /\ LET call == requests[r].calls[1]
               pKey == PoolKeyText(call.orientation, requests[r].filters)
           IN  /\ pKey \in DOMAIN cache
               /\ cache[pKey].expires >= call.startedAt + poolTtlSeconds * 1000
               /\ call.artwork
                      = cache[pKey].value.pool[(call.slot % Len(cache[pKey].value.pool)) + 1]
               /\ \E q \in Lanes \ {r} :
                      /\ Len(requests[q].calls) = 1
                      /\ requests[q].calls[1].st = "ok"
                      /\ requests[q].filters = requests[r].filters
                      /\ requests[q].calls[1].startedAt < StartMs + TickMs



\* the rotation key of the slot before the slot of the call that starts in
\* lane r, same orientation and filters
StaleKeyOfStart(r) ==
    RotationKeyText(requests'[r].calls[1].orientation, requests'[r].filters,
                    SlotAt(requests'[r].calls[1].orientation, now) - 1)

\* the call that starts in lane r is the first of its slot, and the pick of
\* the slot before is still cached
FirstOfSlotWithStalePick(r) ==
    /\ IsSelectorStart(r)
    /\ LiveIn(cache, StaleKeyOfStart(r), now)
    /\ ~LiveIn(cache, KeyOfStart(r), now)

\* C22 as stated: the first request of slot s+1 that finds the pick of slot
\* s still cached is served that cached value.
C22_StalePickServed ==
    [][\A r \in Lanes :
          FirstOfSlotWithStalePick(r) =>
              /\ requests'[r].calls[1].st = "ok"
              /\ requests'[r].calls[1].artwork
                     = cache[StaleKeyOfStart(r)].value.artwork]_vars

\* a rotation entry that a step writes is the pick of a call that returns
\* in the step, under the key of the slot the call started in, and expires
\* one full interval after the write
PickWrittenUnderOwnSlot ==
    \A key \in DOMAIN cache' :
        (/\ cache'[key].value.kind = "artwork"
         /\ (key \notin DOMAIN cache \/ cache'[key] # cache[key])) =>
            \E r \in Lanes :
                /\ Len(requests'[r].calls) = 1
                /\ LET call == requests'[r].calls[1]
                   IN
                    /\ call.st = "ok"
                    /\ key = RotationKeyText(call.orientation, requests'[r].filters,
                                             SlotAt(call.orientation, call.startedAt))
                    /\ cache'[key].value.artwork = call.artwork
                    /\ cache'[key].expires
                           = now + rotationIntervals[call.orientation] * 1000

\* C22, as the code has it: a pick is cached for one full interval from the
\* moment it is written, so it can outlive its slot; but the slot number is
\* part of the rotation key, so the first request of slot s+1 does not read
\* the entry of slot s: it picks the member for slot s+1 from the pool (or
\* builds a pool) and leaves the old entry to expire.
C22_StalePickNeverServed ==
    [][/\ PickWrittenUnderOwnSlot
       /\ \A r \in Lanes :
            FirstOfSlotWithStalePick(r) =>
                LET call == requests'[r].calls[1]
                    pKey == PoolKeyOfStart(r)
                IN  IF LiveIn(cache, pKey, now)
                    THEN LET pool == cache[pKey].value.pool
                         IN  /\ call.st = "ok"
                             /\ call.artwork
                                    = pool[(SlotAt(call.orientation, now) % Len(pool)) + 1]
                             /\ cache'[KeyOfStart(r)].value.artwork = call.artwork
                             /\ cache'[StaleKeyOfStart(r)] = cache[StaleKeyOfStart(r)]
                    ELSE call.st = "building" /\ cache' = cache]_vars

\* the first call of a slot has returned a pick that differs from the pick
\* of the slot before, which is still cached
C22_Witness ==
    \E r \in Lanes :
        /\ requests[r].kind \in {"orientation", "aggregator"}
        /\ Len(requests[r].calls) = 1
        /\ requests[r].calls[1].st = "ok"
        /\ LET call == requests[r].calls[1]
               slot == SlotAt(call.orientation, call.startedAt)
               own == RotationKeyText(call.orientation, requests[r].filters, slot)
               stale == RotationKeyText(call.orientation, requests[r].filters, slot - 1)
           IN  /\ call.startedAt = now
               /\ LiveIn(cache, stale, now)
               /\ LiveIn(cache, own, now)
               /\ cache[own].value.artwork = call.artwork
               /\ cache[stale].value.artwork # call.artwork
               /\ cache[own].expires = now + rotationIntervals[call.orientation] * 1000



-----------------------------------------------------------------------------
(* Throttling inside one run of fetchArtworkPool (SpecPool) *)

\* C23: within one run of fetchArtworkPool a sleep of retryDelayMs lies
\* between every two consecutive adapter invocations, whatever became of the
\* earlier one: when an invocation that is not the run's first begins, every
\* invocation before it has been followed by one sleep.
C23_SleepBetweenAdapterCalls ==
    [][(pCalls' = pCalls + 1 /\ pCalls > 0) => pSleeps = pCalls]_vars



-----------------------------------------------------------------------------
(* The source a roll selects (SpecSelection) *)

\* the sum of the weights of the first i entries
RECURSIVE CumulativeWeight(_, _)
CumulativeWeight(sourceEntries, i) ==
    IF i = 0 THEN 0
    ELSE CumulativeWeight(sourceEntries, i - 1) + sourceEntries[i].weight

\* the roll of the call that returned sKey, in half units
LastRoll == sRoll - 1

\* the first position whose cumulative weight is at least the roll
FirstReaching(sourceEntries, roll2) ==
    CHOOSE i \in 1..Len(sourceEntries) :
        /\ roll2 <= 2 * CumulativeWeight(sourceEntries, i)
        /\ \A j \in 1..(i - 1) : roll2 > 2 * CumulativeWeight(sourceEntries, j)

\* C24: for a non-empty source list of positive total weight and a roll in
\* [0, total), pickWeightedSource returns the key of the first source, in
\* list order, whose cumulative weight is at least the roll; a roll equal to
\* a cumulative boundary therefore gets the earlier-listed source, and the
\* key returned is always one of the list.
C24_FirstSourceReachingRoll ==
    (sKey # "none" /\ Len(sEntries) > 0 /\ totalWeight(sEntries) > 0) =>
        /\ LastRoll \in 0..(2 * totalWeight(sEntries) - 1)
        /\ sKey = sEntries[FirstReaching(sEntries, LastRoll)].key
        /\ sKey \in EntryKeys(sEntries)

\* a roll on the boundary between two sources of positive weight has
\* returned the earlier one
C24_Witness ==
    /\ sKey # "none"
    /\ LastRoll > 0
    /\ \E i \in 1..(Len(sEntries) - 1) :
          /\ LastRoll = 2 * CumulativeWeight(sEntries, i)
          /\ sEntries[i].weight > 0
          /\ sEntries[i + 1].weight > 0
          /\ sKey = sEntries[i].key
          /\ sKey # sEntries[i + 1].key



-----------------------------------------------------------------------------
(* Filter signatures (SpecSignature): portrait calls of the two selectors  *)
(* whose style lists include a list of two styles and the list of the one  *)
(* style spelt as the two joined by a hyphen, as ?styles=Abstract,Modern   *)
(* and ?styles=Abstract-Modern give them after split(',').                 *)

SignatureInputs ==
    {NoFilters,
     Styles(<<TxtAbstract>>),
     Styles(<<TxtAbstract, TxtModern>>),
     Styles(<<TxtAbstract \o <<"-">> \o TxtModern>>)}

\* the pools of the runs of fetchArtworkPool in which the first attempt
\* went to ARTIC and every later attempt failed; <<>> stands for the run
\* that ends with the pool-exhaustion error
SignatureBuilds ==
    [orientation \in Orientations \ {NoOrientation}, filters \in SignatureInputs |->
        {LoopBody(<<>>, {}, poolSize, outcome).artworks :
            outcome \in UNION {fetchFromSource("artic", orientation, filters, response) :
                                  response \in Responses("artic")}}]

NextSignature ==
    \/ \E r \in Lanes, filters \in SignatureInputs :
           getArtworkByOrientationHandler(r, "portrait", filters)
    \/ \E r \in Lanes, filters \in SignatureInputs :
           aggregatorCall(r, "portrait", filters)
    \/ \E r \in Lanes : PoolBuilt(r, 1, SignatureBuilds)

SpecSignature == InitRotation /\ [][NextSignature]_vars

\* the step starts a portrait call in lane r
SignatureStart(r) ==
    \E filters \in SignatureInputs :
        \/ getArtworkByOrientationHandler(r, "portrait", filters)
        \/ aggregatorCall(r, "portrait", filters)

\* C25: two calls for the same orientation and slot whose style lists differ
\* (no list included) use different pool keys and different rotation keys,
\* and the first call of a lane, made when every art entry of the cache was
\* written for a different style list, finds neither a pick nor a pool: it
\* invokes the pool builder.
C25_FilterSignaturesPartition ==
    [][\A r \in Lanes : \A q \in Lanes \ {r} :
          /\ (/\ Len(requests'[r].calls) = 1
              /\ Len(requests'[q].calls) = 1
              /\ requests'[r].calls[1].orientation = requests'[q].calls[1].orientation
              /\ requests'[r].calls[1].slot = requests'[q].calls[1].slot
              /\ requests'[r].filters # requests'[q].filters) =>
                 LET o == requests'[r].calls[1].orientation
                     slot == requests'[r].calls[1].slot
                 IN  /\ poolKey(o, requests'[r].filters) # poolKey(o, requests'[q].filters)
                     /\ rotationCacheKey(o, requests'[r].filters, slot)
                            # rotationCacheKey(o, requests'[q].filters, slot)
          /\ (/\ SignatureStart(r)
              /\ requests[r].kind = "idle"
              /\ requests[q].filters # requests'[r].filters) =>
                 requests'[r].calls[1].st = "building"]_vars



-----------------------------------------------------------------------------
(* The rotation selectors called with any orientation string               *)
(* (SpecFallback): getArtworkByOrientation does not validate its argument; *)
(* "square" stands for a string that is no key of rotationIntervals.       *)

\* the controller's getArtworkByOrientation called as the handler calls it,
\* without the handler's test of the orientation
getArtworkByOrientation(r, orientation, filters) ==
    /\ CanStart(r, "orientation")
    /\ LET r1 == getArtworkStart(cache, now, artConfig, orientation, filters)
       IN  /\ requests' = [requests EXCEPT ![r] =
                              Settle(NewRequest("orientation", filters), <<MkCall(r1)>>)]
           /\ cache' = r1.cache
           /\ served' = Observe(cache, now, r1.cache, now, Returned(r1, filters))
    /\ budget' = budget - 1
    /\ UNCHANGED <<now, artConfig, adapterVars, poolVars, unitVars>>

\* the pools of the runs of fetchArtworkPool in which the first attempt
\* went to ARTIC and every later attempt failed; <<>> stands for the run
\* that ends with the pool-exhaustion error
FallbackBuilds ==
    [orientation \in OrientationParams, filters \in {NoFilters} |->
        {LoopBody(<<>>, {}, poolSize, outcome).artworks :
            outcome \in UNION {fetchFromSource("artic", orientation, filters, response) :
                                  response \in Responses("artic")}}]

NextFallback ==
    \/ \E r \in Lanes, orientation \in OrientationParams :
           getArtworkByOrientation(r, orientation, NoFilters)
    \/ \E r \in Lanes, orientation \in OrientationParams :
           aggregatorCall(r, orientation, NoFilters)
    \/ \E r \in Lanes : PoolBuilt(r, 1, FallbackBuilds)

SpecFallback == InitRotation /\ [][NextFallback]_vars

\* the step starts a call in lane r
FallbackStart(r) ==
    \E orientation \in OrientationParams :
        \/ getArtworkByOrientation(r, orientation, NoFilters)
        \/ aggregatorCall(r, orientation, NoFilters)

\* the interval the claim gives an orientation, in ms
IntervalMsFor(orientation) ==
    IF orientation = "portrait" THEN 300000
    ELSE IF orientation = "tv" THEN 360000
    ELSE 420000

\* the pick of the call in lane r is cached under the key of the slot of
\* width ms that holds the call's start, and was written with TTL ms
PickCachedFor(r, ms) ==
    LET call == requests'[r].calls[1]
        key == RotationKeyText(call.orientation, requests'[r].filters,
                               call.startedAt \div ms)
    IN  /\ key \in DOMAIN cache'
        /\ cache'[key].value.artwork = call.artwork
        /\ (key \notin DOMAIN cache \/ cache'[key] # cache[key]) =>
               cache'[key].expires = now + ms

-----------------------------------------------------------------------------
(* Pool write and pick write under overlapping calls (SpecRotation) *)

\* the entry under key is written by the step
WrittenInStep(key) ==
    key \in DOMAIN cache' /\ (key \notin DOMAIN cache \/ cache'[key] # cache[key])

\* the call in lane r returns in the step with the pick for its slot in the
\* cache, taken at index slot mod length from the pool that the cache holds
\* under the call's pool key
ReturnsPickOfCachedPool(r) ==
    /\ Len(requests'[r].calls) = 1
    /\ requests'[r] # requests[r]
    /\ LET call == requests'[r].calls[1]
           rotKey == RotationKeyText(call.orientation, requests'[r].filters, call.slot)
           pKey == PoolKeyText(call.orientation, requests'[r].filters)
       IN  /\ call.st = "ok"
           /\ LiveIn(cache', rotKey, now')
           /\ LiveIn(cache', pKey, now')
           /\ LET pool == cache'[pKey].value.pool
              IN  /\ Len(pool) > 0
                  /\ cache'[rotKey].value.artwork = pool[(call.slot % Len(pool)) + 1]
                  /\ call.artwork = cache'[rotKey].value.artwork

\* C27: the pool write and the pick write of a call are one step.  A step
\* that writes a pool is the return of one build and writes that call's
\* pick as well; a step that writes a pick for slot s leaves in the cache,
\* under the pool key of the same orientation and filters, the pool the
\* pick was taken from, at index s mod length; no step writes entries of
\* two calls.
C27_PoolAndPickWrittenTogether ==
    [][/\ \A key \in DOMAIN cache' :
            (WrittenInStep(key) /\ cache'[key].value.kind \in {"pool", "artwork"}) =>
                \E r \in Lanes :
                    /\ ReturnsPickOfCachedPool(r)
                    /\ LET call == requests'[r].calls[1]
                       IN  key \in {RotationKeyText(call.orientation, requests'[r].filters,
                                                    call.slot),
                                    PoolKeyText(call.orientation, requests'[r].filters)}
                    /\ \A q \in Lanes \ {r} : requests'[q] = requests[q]
       /\ \A r \in Lanes :
            BuildReturns(r) =>
                /\ ReturnsPickOfCachedPool(r)
                /\ cache'[KeyOfCall(r)].expires = now + poolTtlSeconds * 1000
                /\ LET call == requests'[r].calls[1]
                       rotKey == RotationKeyText(call.orientation, requests'[r].filters,
                                                 call.slot)
                   IN  cache'[rotKey].expires
                           = now + rotationIntervals[call.orientation] * 1000]_vars

\* of two calls building for one key, the one that started a slot ago has
\* just returned: its pool and its pick (under the key of the slot it
\* started in) were written at this instant, while the other still builds
C27_Witness ==
    \E r \in Lanes : \E q \in Lanes \ {r} :
        /\ Len(requests[r].calls) = 1 /\ Len(requests[q].calls) = 1
        /\ requests[r].calls[1].st = "ok"
        /\ requests[q].calls[1].st = "building"
        /\ requests[r].calls[1].orientation = requests[q].calls[1].orientation
        /\ requests[r].filters = requests[q].filters
        /\ requests[r].calls[1].startedAt < now
        /\ LET call == requests[r].calls[1]
               rotKey == RotationKeyText(call.orientation, requests[r].filters, call.slot)
               pKey == PoolKeyText(call.orientation, requests[r].filters)
           IN  /\ call.slot < SlotAt(call.orientation, now)
               /\ rotKey \in DOMAIN cache /\ pKey \in DOMAIN cache
               /\ cache[pKey].expires = now + poolTtlSeconds * 1000
               /\ cache[rotKey].expires = now + rotationIntervals[call.orientation] * 1000
               /\ Len(cache[pKey].value.pool) = 3
               /\ cache[rotKey].value.artwork
                      = cache[pKey].value.pool[(call.slot % 3) + 1]



-----------------------------------------------------------------------------
(* POST /refresh: what it writes (SpecPick, defined below) *)

\* the step is one of the refresh in lane r: its start, or one of its
\* builds settling
IsRefreshStep(r) ==
    /\ requests'[r].kind = "refresh"
    /\ requests'[r] # requests[r]

\* C28: POST /refresh writes its pools all together or not at all.  No step
\* of a refresh changes the cache except the one in which the third of its
\* builds has succeeded; once one build has failed, the refresh writes none
\* of the three pool keys, whatever its other builds return, and is answered
\* through handleError.
C28_RefreshAllOrNothing ==
    [][\A r \in Lanes :
          IsRefreshStep(r) =>
              /\ IF IsRefreshSuccess(r)
                 THEN \A i \in 1..Len(FanOut) :
                          /\ PoolKeyText(FanOut[i], requests'[r].filters) \in DOMAIN cache'
                          /\ cache'[PoolKeyText(FanOut[i], requests'[r].filters)].expires
                                 = now + poolTtlSeconds * 1000
                 ELSE cache' = cache
              /\ SomeCallFailed(requests'[r]) =>
                     /\ cache' = cache
                     /\ requests'[r].responded
                     /\ requests'[r].response = handleError(PoolError)]_vars

\* a refresh whose landscape build failed has seen its portrait build return
\* a pool: the request was answered with the fallback and no portrait pool
\* is in the cache
C28_Witness ==
    \E r \in Lanes :
        /\ requests[r].kind = "refresh"
        /\ requests[r].responded
        /\ requests[r].calls[2].st = "failed"
        /\ requests[r].calls[1].st = "ok"
        /\ requests[r].calls[1].pool # <<>>
        /\ requests[r].response = handleError(PoolError)
        /\ \A i \in 1..Len(FanOut) :
              PoolKeyText(FanOut[i], requests[r].filters) \notin DOMAIN cache



-----------------------------------------------------------------------------
(* Picks across a refresh (SpecPick): landscape calls of the dashboard's   *)
(* selector and of GET /orientation around a POST /refresh; the landscape slot of StartMs *)
(* holds the next tick as well.                                            *)

NextPick ==
    \/ \E r \in Lanes : getArtworkByOrientationHandler(r, "landscape", NoFilters)
    \/ \E r \in Lanes : aggregatorCall(r, "landscape", NoFilters)
    \/ \E r \in Lanes : PoolBuilt(r, 1, SampleBuilds)
    \/ \E r \in Lanes : refreshPools(r, NoFilters)
    \/ \E r \in Lanes, i \in 1..Len(FanOut) : RefreshBuilt(r, i, FanOutBuilds)
    \/ Tick

SpecPick == InitTtl /\ [][NextPick]_vars


\* the rotation entries of a cache
Picks(c) == {key \in DOMAIN c : c[key].value.kind = "artwork"}

\* the step starts a landscape call in lane r
PickStart(r) ==
    \/ getArtworkByOrientationHandler(r, "landscape", NoFilters)
    \/ aggregatorCall(r, "landscape", NoFilters)

\* the last POST /refresh has succeeded
RefreshSucceeded ==
    \E q \in Lanes :
        /\ requests[q].kind = "refresh"
        /\ requests[q].responded
        /\ \A i \in 1..Len(FanOut) : requests[q].calls[i].st = "ok"

\* C29: no step of a POST /refresh adds, changes or removes a rotation
\* entry.  A pick is cached until the end of its slot at least, so a call
\* made after a successful refresh in a slot that has its pick cached
\* returns that pick and leaves the cache as it is, member of the new pool
\* or not.
C29_RefreshKeepsPicks ==
    [][\A r \in Lanes :
          /\ IsRefreshStep(r) =>
                /\ Picks(cache') = Picks(cache)
                /\ \A key \in Picks(cache) : cache'[key] = cache[key]
          /\ (PickStart(r) /\ requests'[r].calls[1].st = "ok") =>
                LET call == requests'[r].calls[1]
                IN  /\ KeyOfStart(r) \in DOMAIN cache'
                    /\ cache'[KeyOfStart(r)].expires
                           >= (call.slot + 1) * rotationIntervals[call.orientation] * 1000
          /\ (PickStart(r) /\ RefreshSucceeded /\ KeyOfStart(r) \in Picks(cache)) =>
                /\ requests'[r].calls[1].st = "ok"
                /\ requests'[r].calls[1].artwork = cache[KeyOfStart(r)].value.artwork
                /\ cache' = cache]_vars

\* after a pick was cached, a refresh replaced the landscape pool by one
\* that does not hold the pick; a call later in the slot was served the pick
C29_Witness ==
    /\ RefreshSucceeded
    /\ \E r \in Lanes :
          /\ requests[r].kind \in {"orientation", "aggregator"}
          /\ Len(requests[r].calls) = 1
          /\ requests[r].calls[1].st = "ok"
          /\ LET call == requests[r].calls[1]
                 rotKey == RotationKeyText("landscape", NoFilters, call.slot)
                 pKey == PoolKeyText("landscape", NoFilters)
             IN  /\ call.orientation = "landscape"
                 /\ call.slot = SlotAt("landscape", now)
                 /\ rotKey \in DOMAIN cache /\ pKey \in DOMAIN cache
                 /\ cache[rotKey].value.artwork = call.artwork
                 /\ cache[rotKey].expires - rotationIntervals.landscape * 1000
                        < call.startedAt
                 /\ cache[rotKey].expires - rotationIntervals.landscape * 1000
                        < cache[pKey].expires - poolTtlSeconds * 1000
                 /\ \A j \in 1..Len(cache[pKey].value.pool) :
                        cache[pKey].value.pool[j] # call.artwork



-----------------------------------------------------------------------------
(* The two copies of the rotation selector side by side (SpecEquivalence): *)
(* landscape calls of GET /orientation and of the dashboard's selector on  *)
(* the shared cache, with and without a style list.                        *)

NextEquivalence ==
    \/ \E r \in Lanes, filters \in FilterInputs :
           getArtworkByOrientationHandler(r, "landscape", filters)
    \/ \E r \in Lanes, filters \in FilterInputs :
           aggregatorCall(r, "landscape", filters)
    \/ \E r \in Lanes : PoolBuilt(r, 1, SampleBuilds)
    \/ Tick

SpecEquivalence == InitRotation /\ [][NextEquivalence]_vars

\* the pools handed to the finishes below
ComparedPools(orientation, filters) ==
    IF orientation \in Orientations \ {NoOrientation}
    THEN SampleBuilds[orientation, filters] \ {<<>>}
    ELSE SampleBuilds["landscape", filters] \ {<<>>}

\* C30: on every cache the requests leave, at every instant, for every
\* orientation string and style list, the controller's and the aggregator's
\* getArtworkByOrientation do the same: the same outcome up to the await
\* (rotation hit, pick from the cached pool, or build), the same artwork, the
\* same cache afterwards; and given the same built pool the same pool entry,
\* pick entry, expiry times and artwork after the await.
C30_SelectorsEquivalent ==
    \A orientation \in OrientationParams, filters \in FilterInputs :
        LET viaController == getArtworkStart(cache, now, artConfig, orientation, filters)
            viaAggregator == aggregatorArtworkStart(cache, now, artConfig, orientation,
                                                    filters)
        IN  /\ viaController = viaAggregator
            /\ viaController.st = "building" =>
               \A pool \in ComparedPools(orientation, filters) :
                   getArtworkFinish(cache, now, viaController.call, filters, pool)
                       = aggregatorArtworkFinish(cache, now, viaAggregator.call, filters,
                                                 pool)

\* a pick that GET /orientation/landscape built and cached was served, one
\* tick later in the same slot, to the dashboard's selector
C30_Witness ==
    LET a == requests["art"]
        d == requests["dashboard"]
    IN  /\ a.kind = "orientation" /\ d.kind = "aggregator"
        /\ Len(a.calls) = 1 /\ Len(d.calls) = 1
        /\ a.calls[1].st = "ok" /\ d.calls[1].st = "ok"
        /\ a.calls[1].orientation = "landscape"
        /\ d.calls[1].orientation = "landscape"
        /\ a.filters = d.filters
        /\ a.calls[1].slot = d.calls[1].slot
        /\ a.calls[1].startedAt < d.calls[1].startedAt
        /\ LET rotKey == RotationKeyText("landscape", a.filters, a.calls[1].slot)
               pKey == PoolKeyText("landscape", a.filters)
           IN  /\ rotKey \in DOMAIN cache /\ pKey \in DOMAIN cache
               /\ cache[rotKey].expires
                      = a.calls[1].startedAt + rotationIntervals.landscape * 1000
               /\ cache[pKey].expires = a.calls[1].startedAt + poolTtlSeconds * 1000
               /\ d.calls[1].artwork = cache[rotKey].value.artwork
               /\ d.calls[1].artwork = a.calls[1].artwork

=============================================================================
